---- MODULE Spec2Model ----
(***************************************************************************)
(* Client wrappers of postyl_backend: the media upload / publish           *)
(* handshakes of the Instagram and LinkedIn clients, the token methods of  *)
(* the Instagram and Reddit clients, the messaging clients' replies, the   *)
(* error reporting of the HTTP wrappers, and Twitter's AutomatedTweeter    *)
(* and AutoReplier.                                                        *)
(*                                                                         *)
(* Under Spec one behaviour is one call of one client method, or one use   *)
(* of a tweeter or replier.  Init draws the method, its arguments and the  *)
(* client's fields; every action sends one HTTP request, draws the         *)
(* server's answer, and runs the method's code up to the next request or   *)
(* to its return.  SessionSpec, RedditSpec and MsgSpec let the caller make *)
(* further calls on the same client; RaceSpec and FairSpec are about the   *)
(* goroutines of the tweeter and the replier.                              *)
(***************************************************************************)
EXTENDS Integers, Sequences, FiniteSets, TLC

VARIABLES
    op,           \* the method being called
    pc,           \* position inside the method
    client,       \* the receiver's fields: AccessToken, UserID
    args,         \* the call's arguments
    reqs,         \* requests sent so far, in order (the polls of one
                  \* waitForMediaProcessing call are one entry; statusReqs counts them)
    resps,        \* answers received to the requests other than status polls, in order
    mediaResp,    \* local mediaResp: the decoded creation answer
    carouselResp, \* local carouselResp of PostCarousel
    childrenIDs,  \* local childrenIDs of PostCarousel
    idx,          \* PostCarousel: number of mediaPaths already handled
    i,            \* waitForMediaProcessing: loop variable
    statusReqs,   \* status requests sent by the latest waitForMediaProcessing call
    statusResp,   \* waitForMediaProcessing: the last answer (statusResp, bodyBytes)
    waitErr,      \* value returned by the latest waitForMediaProcessing call
    lastResp,     \* the last answer of a non-status request
    assetURN,     \* LinkedIn UploadImage: local assetURN
    uploadURL,    \* LinkedIn UploadImage: local uploadURL
    authorID,     \* LinkedIn CreateImagePost: parameter authorID once resolved
    ret,          \* the method's return values: [val, err]
    stopChan,     \* AutomatedTweeter / AutoReplier: StopChan, "open" or "closed"
    crash,        \* the value of the panic that ended the program, "" while it runs
    gor,          \* the goroutines that call Start: position and locals of each
    CurrentIndex, \* AutomatedTweeter.CurrentIndex
    ticks,        \* AutoReplier: ticks taken from the tickers so far
    LastTweetIDs, \* AutoReplier.LastTweetIDs
    replied,      \* AutoReplier: ReplyToTweet requests sent, per query and tweet id
    searches,     \* AutoReplier: SearchRecentTweets requests sent
    reddit,       \* RedditClient: AccessToken, TokenExpiry
    now           \* time.Now(), in seconds

vars == <<op, pc, client, args, reqs, resps, mediaResp, carouselResp, childrenIDs,
          idx, i, statusReqs, statusResp, waitErr, lastResp, assetURN, uploadURL,
          authorID, ret, stopChan, crash, gor, CurrentIndex, ticks, LastTweetIDs,
          replied, searches, reddit, now>>

\* the locals of the Instagram methods, and those of the LinkedIn methods
igLocals == <<mediaResp, carouselResp, childrenIDs, idx, i, statusReqs, statusResp, waitErr>>
liLocals == <<assetURN, uploadURL, authorID>>
\* the state of AutomatedTweeter and AutoReplier
twLocals == <<stopChan, crash, gor, CurrentIndex, ticks, LastTweetIDs, replied, searches>>
\* the RedditClient's token and the clock
sessLocals == <<reddit, now>>

----------------------------------------------------------------------------
(* Bounds of the model *)

\* longest mediaPaths slice handed to PostCarousel
MaxPaths == 2

----------------------------------------------------------------------------
(* net/http *)

StatusOK == 200
StatusCreated == 201
StatusNoContent == 204
StatusNotFound == 404

\* an answer of HTTPClient.Do: a transport error, or a status code and a body
TransportError == [neterr |-> TRUE, code |-> 0, body |-> ""]
HTTP(code, body) == [neterr |-> FALSE, code |-> code, body |-> body]

NoResp == [neterr |-> FALSE, code |-> 0, body |-> ""]

Is2xx(code) == code >= 200 /\ code <= 299

----------------------------------------------------------------------------
(* error values: nil, or the message as the sequence of its parts, so that *)
(* what a message contains is decided by how it was formatted              *)

Nil == <<>>
Lit(s) == [t |-> "lit", v |-> s]
BodyPart(b) == [t |-> "body", v |-> b]
StatusPart(c) == [t |-> "status", v |-> c]
Cause(k) == [t |-> "cause", v |-> k]

\* errors.New(msg)
ErrorsNew(msg) == <<Lit(msg)>>
\* fmt.Errorf("<msg>: %s, status: %d", string(bodyBytes), resp.StatusCode)
ErrBodyStatus(msg, body, code) == <<Lit(msg), BodyPart(body), Lit(", status: "), StatusPart(code)>>
\* the error of HTTPClient.Do, and of a JSON decode
ErrTransport == <<Cause("transport")>>
ErrJSON == <<Cause("json")>>

ContainsBody(e, b) == \E k \in 1..Len(e) : e[k].t = "body" /\ e[k].v = b
ContainsStatus(e, c) == \E k \in 1..Len(e) : e[k].t = "status" /\ e[k].v = c
StartsWith(e, msg) == Len(e) >= 1 /\ e[1].t = "lit" /\ e[1].v = msg

NoVal == [ID |-> "", StatusURL |-> "", none |-> TRUE]
Return(val, err) == [val |-> val, err |-> err]
NotReturned == [val |-> NoVal, err |-> Nil]

----------------------------------------------------------------------------
(* Instagram: answers of the Graph API *)

\* status codes the server may answer with
Codes == {StatusOK, StatusCreated, 500}

\* bodies of an answer to POST /media and POST /media_publish
MediaBodies == {"not json", "{id:c1}", "{id:c2}",
                "{id:c1,status_url:u1}", "{id:c2,status_url:u2}"}

\* json.NewDecoder(resp.Body).Decode(&mediaResp) into a MediaResponse: absent
\* fields keep their zero value
DecodeMedia(body) ==
    CASE body = "{id:c1}" -> [ok |-> TRUE, ID |-> "c1", StatusURL |-> ""]
      [] body = "{id:c2}" -> [ok |-> TRUE, ID |-> "c2", StatusURL |-> ""]
      [] body = "{id:c1,status_url:u1}" -> [ok |-> TRUE, ID |-> "c1", StatusURL |-> "u1"]
      [] body = "{id:c2,status_url:u2}" -> [ok |-> TRUE, ID |-> "c2", StatusURL |-> "u2"]
      [] OTHER -> [ok |-> FALSE, ID |-> "", StatusURL |-> ""]

MediaVal(d) == [ID |-> d.ID, StatusURL |-> d.StatusURL, none |-> FALSE]
NoMedia == [ok |-> FALSE, ID |-> "", StatusURL |-> ""]

MediaAnswers == {TransportError} \cup {HTTP(c, b) : c \in Codes, b \in MediaBodies}

\* bodies of an answer to GET <status_url>
StatusBodies == {"not json", "{error:x}", "{status_code:7}", "{status_code:IN_PROGRESS}",
                 "{status_code:FINISHED}", "{status_code:ERROR}"}

\* json.Unmarshal(bodyBytes, &statusData); statusData["status_code"].(string)
DecodeStatus(body) ==
    CASE body = "not json" -> [json |-> FALSE, ok |-> FALSE, status |-> ""]
      [] body = "{error:x}" -> [json |-> TRUE, ok |-> FALSE, status |-> ""]
      [] body = "{status_code:7}" -> [json |-> TRUE, ok |-> FALSE, status |-> ""]
      [] body = "{status_code:IN_PROGRESS}" -> [json |-> TRUE, ok |-> TRUE, status |-> "IN_PROGRESS"]
      [] body = "{status_code:FINISHED}" -> [json |-> TRUE, ok |-> TRUE, status |-> "FINISHED"]
      [] body = "{status_code:ERROR}" -> [json |-> TRUE, ok |-> TRUE, status |-> "ERROR"]
      [] OTHER -> [json |-> FALSE, ok |-> FALSE, status |-> ""]

StatusAnswers == {TransportError} \cup {HTTP(c, b) : c \in Codes, b \in StatusBodies}

----------------------------------------------------------------------------
(* Instagram: requests *)

Req(method, url, params) == [method |-> method, url |-> url, params |-> params]

\* PostCarousel: strings.HasSuffix(strings.ToLower(mediaPath), ".mp4")
Paths == {"a.jpg", "b.MP4"}
HasMp4Suffix(path) == path = "b.MP4"

\* strings.Join(elems, sep): the elements with sep between neighbours
RECURSIVE Join(_, _)
Join(elems, sep) ==
    IF Len(elems) = 0 THEN <<>>
    ELSE IF Len(elems) = 1 THEN <<elems[1]>>
    ELSE <<elems[1], sep>> \o Join(Tail(elems), sep)

\* resp, err := c.HTTPClient.Do(req); the status check; the decode into a
\* MediaResponse: the error to return (nil to go on) and the decoded answer
MediaOutcome(r, msg) ==
    IF r.neterr THEN [err |-> ErrTransport, media |-> NoMedia]
    ELSE IF r.code # StatusOK
    THEN [err |-> ErrBodyStatus(msg, r.body, r.code), media |-> NoMedia]
    ELSE IF ~DecodeMedia(r.body).ok THEN [err |-> ErrJSON, media |-> NoMedia]
    ELSE [err |-> Nil, media |-> DecodeMedia(r.body)]

IGOps == {"PostImage", "PostReel", "PostCarousel"}

\* if c.AccessToken == "" || c.UserID == "" { return nil, errors.New(...) }
IGCheckToken ==
    /\ op \in IGOps /\ pc = "start"
    /\ IF client.AccessToken = "" \/ client.UserID = ""
       THEN /\ ret' = Return(NoVal, ErrorsNew("access token and user ID are required"))
            /\ pc' = "done"
       ELSE /\ ret' = ret
            /\ pc' = IF op = "PostCarousel" THEN "loop" ELSE "create"
    /\ UNCHANGED <<sessLocals, twLocals, op, client, args, liLocals, reqs, resps, mediaResp, carouselResp, childrenIDs,
                   idx, i, statusReqs, statusResp, waitErr, lastResp>>

\* a creation step that never waits
EnterWait_skip ==
    /\ pc' = "publish"
    /\ i' = 0
    /\ statusReqs' = 0
    /\ waitErr' = Nil

\* the step after a container was created: wait when a status URL came back
EnterWait ==
    /\ pc' = "wait"
    /\ i' = 0
    /\ statusReqs' = 0
    /\ waitErr' = Nil

\* PostImage, step 1: create the media container
ImageCreate ==
    /\ op = "PostImage" /\ pc = "create"
    /\ \E r \in MediaAnswers :
        LET out == MediaOutcome(r, "failed to create media container: ") IN
        /\ reqs' = Append(reqs, Req("POST", "media",
                [image_url |-> args.path, caption |-> args.caption,
                 access_token |-> client.AccessToken]))
        /\ lastResp' = r
        /\ resps' = Append(resps, r)
        /\ IF out.err # Nil
           THEN /\ ret' = Return(NoVal, out.err)
                /\ pc' = "done"
                /\ UNCHANGED mediaResp
           ELSE /\ mediaResp' = out.media
                /\ pc' = "publish"
                /\ ret' = ret
    /\ UNCHANGED <<sessLocals, twLocals, op, client, args, liLocals, carouselResp, childrenIDs, idx, i, statusReqs,
                   statusResp, waitErr>>

\* POST /media_publish with creation_id, and the method's return
PublishStep(creationID, msg) ==
    \E r \in MediaAnswers :
        LET out == MediaOutcome(r, msg) IN
        /\ reqs' = Append(reqs, Req("POST", "media_publish",
                [creation_id |-> creationID, access_token |-> client.AccessToken]))
        /\ lastResp' = r
        /\ resps' = Append(resps, r)
        /\ ret' = IF out.err # Nil THEN Return(NoVal, out.err)
                  ELSE Return(MediaVal(out.media), Nil)
        /\ pc' = "done"
        /\ UNCHANGED <<sessLocals, twLocals, op, client, args, liLocals, mediaResp, carouselResp, childrenIDs,
                       idx, i, statusReqs, statusResp, waitErr>>

\* PostImage, step 2: publish the container
ImagePublish ==
    /\ op = "PostImage" /\ pc = "publish"
    /\ PublishStep(mediaResp.ID, "failed to publish media: ")

\* params of PostReel's creation request: thumb_url and share_to_feed are
\* added only when given
ReelParams ==
    [media_type |-> "REELS", video_url |-> args.path, caption |-> args.caption,
     access_token |-> client.AccessToken, thumb_url |-> args.cover,
     share_to_feed |-> IF args.shareToFeed THEN "true" ELSE ""]

\* PostReel, step 1: create the reel container
ReelCreate ==
    /\ op = "PostReel" /\ pc = "create"
    /\ \E r \in MediaAnswers :
        LET out == MediaOutcome(r, "failed to create reel container: ") IN
        /\ reqs' = Append(reqs, Req("POST", "media", ReelParams))
        /\ lastResp' = r
        /\ resps' = Append(resps, r)
        /\ IF out.err # Nil
           THEN /\ ret' = Return(NoVal, out.err)
                /\ pc' = "done"
                /\ UNCHANGED <<mediaResp, i, statusReqs, waitErr>>
           ELSE /\ mediaResp' = out.media
                /\ ret' = ret
                /\ IF out.media.StatusURL # ""
                   THEN EnterWait
                   ELSE /\ pc' = "publish"
                        /\ UNCHANGED <<i, statusReqs, waitErr>>
    /\ UNCHANGED <<sessLocals, twLocals, op, client, args, liLocals, carouselResp, childrenIDs, idx, statusResp>>

----------------------------------------------------------------------------
(* Instagram: waitForMediaProcessing *)

maxAttempts == 30

\* a loop body that takes an answer without a string status_code for one
\* of a medium still in processing
PollOutcome_lenient(r) ==
    LET d == DecodeStatus(r.body) IN
    IF r.neterr THEN [return |-> TRUE, err |-> ErrTransport]
    ELSE IF ~d.json THEN [return |-> TRUE, err |-> ErrJSON]
    ELSE IF ~d.ok THEN [return |-> FALSE, err |-> Nil]
    ELSE IF d.status = "FINISHED" THEN [return |-> TRUE, err |-> Nil]
    ELSE IF d.status = "ERROR"
    THEN [return |-> TRUE, err |-> <<Lit("media processing failed: "), BodyPart(r.body)>>]
    ELSE [return |-> FALSE, err |-> Nil]

\* a loop body that does not stop at FINISHED
PollOutcome_noFinished(r) ==
    LET d == DecodeStatus(r.body) IN
    IF r.neterr THEN [return |-> TRUE, err |-> ErrTransport]
    ELSE IF ~d.json THEN [return |-> TRUE, err |-> ErrJSON]
    ELSE IF ~d.ok THEN [return |-> TRUE, err |-> ErrorsNew("invalid status response")]
    ELSE IF d.status = "ERROR"
    THEN [return |-> TRUE, err |-> <<Lit("media processing failed: "), BodyPart(r.body)>>]
    ELSE [return |-> FALSE, err |-> Nil]

\* one pass of the loop body after the answer r arrived: whether the helper
\* returns, and with which error
PollOutcome(r) ==
    LET d == DecodeStatus(r.body) IN
    IF r.neterr THEN [return |-> TRUE, err |-> ErrTransport]
    ELSE IF ~d.json THEN [return |-> TRUE, err |-> ErrJSON]
    ELSE IF ~d.ok THEN [return |-> TRUE, err |-> ErrorsNew("invalid status response")]
    ELSE IF d.status = "FINISHED" THEN [return |-> TRUE, err |-> Nil]
    ELSE IF d.status = "ERROR"
    THEN [return |-> TRUE, err |-> <<Lit("media processing failed: "), BodyPart(r.body)>>]
    ELSE [return |-> FALSE, err |-> Nil]

\* an off-by-one loop condition
LoopCond_offByOne == i <= maxAttempts

\* the loop condition i < maxAttempts
LoopCond == i < maxAttempts

\* one iteration: sleep, GET statusURL, look at status_code
WaitPoll ==
    /\ pc = "wait" /\ LoopCond
    /\ \E r \in StatusAnswers :
        LET out == PollOutcome(r) IN
        /\ reqs' = IF statusReqs = 0
                   THEN Append(reqs, Req("GET", mediaResp.StatusURL, <<>>))
                   ELSE reqs
        /\ statusReqs' = statusReqs + 1
        /\ statusResp' = r
        /\ IF out.return
           THEN /\ waitErr' = out.err
                /\ pc' = "waited"
                /\ i' = i
           ELSE /\ waitErr' = waitErr
                /\ pc' = "wait"
                /\ i' = i + 1
    /\ UNCHANGED <<sessLocals, twLocals, op, client, args, liLocals, resps, mediaResp, carouselResp, childrenIDs, idx,
                   lastResp, ret>>

\* the loop ran out: return errors.New("media processing timed out")
WaitTimeout ==
    /\ pc = "wait" /\ ~LoopCond
    /\ waitErr' = ErrorsNew("media processing timed out")
    /\ pc' = "waited"
    /\ UNCHANGED <<sessLocals, twLocals, op, client, args, liLocals, reqs, resps, mediaResp, carouselResp, childrenIDs,
                   idx, i, statusReqs, statusResp, lastResp, ret>>

\* the helper has returned: its locals are gone
LeaveWait ==
    /\ i' = 0
    /\ statusReqs' = 0

\* a caller that goes on to publish whatever the wait returned
ReelAfterWait_ignoreErr ==
    /\ op = "PostReel" /\ pc = "waited"
    /\ ret' = ret
    /\ pc' = "publish"
    /\ LeaveWait
    /\ UNCHANGED <<sessLocals, twLocals, op, client, args, liLocals, reqs, resps, mediaResp, carouselResp,
                   childrenIDs, idx, statusResp, waitErr, lastResp>>

\* PostReel, step 2: err = c.waitForMediaProcessing(...); if err != nil return
ReelAfterWait ==
    /\ op = "PostReel" /\ pc = "waited"
    /\ IF waitErr # Nil
       THEN /\ ret' = Return(NoVal, waitErr)
            /\ pc' = "done"
       ELSE /\ ret' = ret
            /\ pc' = "publish"
    /\ LeaveWait
    /\ UNCHANGED <<sessLocals, twLocals, op, client, args, liLocals, reqs, resps, mediaResp, carouselResp,
                   childrenIDs, idx, statusResp, waitErr, lastResp>>

\* PostReel, step 3: publish the container
ReelPublish ==
    /\ op = "PostReel" /\ pc = "publish"
    /\ PublishStep(mediaResp.ID, "failed to publish reel: ")

----------------------------------------------------------------------------
(* Instagram: PostCarousel *)

\* the new id put in front of the earlier ones
AppendChild_prepend(id) ==
    /\ childrenIDs' = <<id>> \o childrenIDs
    /\ idx' = idx + 1
    /\ pc' = "loop"

\* childrenIDs = append(childrenIDs, mediaResp.ID), and on to the next path
AppendChild(id) ==
    /\ childrenIDs' = Append(childrenIDs, id)
    /\ idx' = idx + 1
    /\ pc' = "loop"

\* step 1, for the next media path: create its container
CarouselChild ==
    /\ op = "PostCarousel" /\ pc = "loop" /\ idx < Len(args.mediaPaths)
    /\ \E r \in MediaAnswers :
        LET mediaPath == args.mediaPaths[idx + 1]
            out == MediaOutcome(r, "failed to create media container: ")
        IN
        /\ reqs' = Append(reqs, Req("POST", "media",
                [media_type |-> IF HasMp4Suffix(mediaPath) THEN "VIDEO" ELSE "IMAGE",
                 image_url |-> IF HasMp4Suffix(mediaPath) THEN "" ELSE mediaPath,
                 video_url |-> IF HasMp4Suffix(mediaPath) THEN mediaPath ELSE "",
                 is_carousel_item |-> "true",
                 access_token |-> client.AccessToken]))
        /\ lastResp' = r
        /\ resps' = Append(resps, r)
        /\ IF out.err # Nil
           THEN /\ ret' = Return(NoVal, out.err)
                /\ pc' = "done"
                /\ UNCHANGED <<mediaResp, childrenIDs, idx, i, statusReqs, waitErr>>
           ELSE /\ mediaResp' = out.media
                /\ ret' = ret
                /\ IF out.media.StatusURL # ""
                   THEN /\ EnterWait
                        /\ UNCHANGED <<childrenIDs, idx>>
                   ELSE /\ AppendChild(out.media.ID)
                        /\ UNCHANGED <<i, statusReqs, waitErr>>
    /\ UNCHANGED <<sessLocals, twLocals, op, client, args, liLocals, carouselResp, statusResp>>

\* a loop that drops a child whose processing failed and goes on
CarouselAfterWait_skipFailed ==
    /\ op = "PostCarousel" /\ pc = "waited"
    /\ ret' = ret
    /\ IF waitErr # Nil
       THEN /\ idx' = idx + 1
            /\ pc' = "loop"
            /\ UNCHANGED childrenIDs
       ELSE AppendChild(mediaResp.ID)
    /\ LeaveWait
    /\ UNCHANGED <<sessLocals, twLocals, op, client, args, liLocals, reqs, resps, mediaResp, carouselResp,
                   statusResp, waitErr, lastResp>>

\* step 1, after the wait for one child
CarouselAfterWait ==
    /\ op = "PostCarousel" /\ pc = "waited"
    /\ IF waitErr # Nil
       THEN /\ ret' = Return(NoVal, waitErr)
            /\ pc' = "done"
            /\ UNCHANGED <<childrenIDs, idx>>
       ELSE /\ ret' = ret
            /\ AppendChild(mediaResp.ID)
    /\ LeaveWait
    /\ UNCHANGED <<sessLocals, twLocals, op, client, args, liLocals, reqs, resps, mediaResp, carouselResp,
                   statusResp, waitErr, lastResp>>

\* step 2: create the carousel container
CarouselContainer ==
    /\ op = "PostCarousel" /\ pc = "loop" /\ idx >= Len(args.mediaPaths)
    /\ \E r \in MediaAnswers :
        LET out == MediaOutcome(r, "failed to create carousel container: ") IN
        /\ reqs' = Append(reqs, Req("POST", "media",
                [media_type |-> "CAROUSEL", caption |-> args.caption,
                 access_token |-> client.AccessToken,
                 children |-> Join(childrenIDs, ",")]))
        /\ lastResp' = r
        /\ resps' = Append(resps, r)
        /\ IF out.err # Nil
           THEN /\ ret' = Return(NoVal, out.err)
                /\ pc' = "done"
                /\ UNCHANGED carouselResp
           ELSE /\ carouselResp' = out.media
                /\ ret' = ret
                /\ pc' = "publish"
    /\ UNCHANGED <<sessLocals, twLocals, op, client, args, liLocals, mediaResp, childrenIDs, idx, i, statusReqs,
                   statusResp, waitErr>>

\* a publish that names the last child instead of the carousel container
CarouselPublish_childID ==
    /\ op = "PostCarousel" /\ pc = "publish"
    /\ PublishStep(mediaResp.ID, "failed to publish carousel: ")

\* step 3: publish the carousel
CarouselPublish ==
    /\ op = "PostCarousel" /\ pc = "publish"
    /\ PublishStep(carouselResp.ID, "failed to publish carousel: ")

----------------------------------------------------------------------------
(* Instagram: GetAccessToken, GetLongLivedAccessToken, RefreshAccessToken *)

IGTokenOps == {"GetAccessToken", "GetLongLivedAccessToken", "RefreshAccessToken"}

\* answers of the token endpoints; user_id is an int64 of TokenResponse, so a
\* user_id that is a string makes Decode fail after access_token was decoded
IGTokenAnswers ==
    {TransportError} \cup
    {HTTP(c, b) : c \in {StatusOK, 400},
                  b \in {"not json", "{}", "{access_token:new,user_id:42}",
                         "{access_token:new,user_id:x}"}}

\* json.NewDecoder(resp.Body).Decode(&tokenResp): tokenResp after the call
DecodeIGToken(body) ==
    CASE body = "{}" -> [json |-> TRUE, AccessToken |-> "", UserID |-> "0"]
      [] body = "{access_token:new,user_id:42}" ->
            [json |-> TRUE, AccessToken |-> "new", UserID |-> "42"]
      [] body = "{access_token:new,user_id:x}" ->
            [json |-> FALSE, AccessToken |-> "new", UserID |-> "0"]
      [] OTHER -> [json |-> FALSE, AccessToken |-> "", UserID |-> "0"]

\* the fields the method sets from tokenResp
WithToken(d) ==
    [AccessToken |-> d.AccessToken,
     UserID |-> IF op = "GetAccessToken" THEN d.UserID ELSE client.UserID]

IGTokenErrMsg ==
    CASE op = "GetAccessToken" -> "failed to get access token: "
      [] op = "GetLongLivedAccessToken" -> "failed to get long lived token: "
      [] OTHER -> "failed to refresh token: "

\* a method that sets the fields from whatever Decode left in tokenResp
IGTokenOutcome_early(r) ==
    LET d == DecodeIGToken(r.body) IN
    IF r.neterr THEN [err |-> ErrTransport, client |-> client]
    ELSE IF r.code # StatusOK
    THEN [err |-> ErrBodyStatus(IGTokenErrMsg, r.body, r.code), client |-> client]
    ELSE IF ~d.json THEN [err |-> ErrJSON, client |-> WithToken(d)]
    ELSE [err |-> Nil, client |-> WithToken(d)]

\* the method after the answer r: the error returned and the client's fields
IGTokenOutcome(r) ==
    LET d == DecodeIGToken(r.body) IN
    IF r.neterr THEN [err |-> ErrTransport, client |-> client]
    ELSE IF r.code # StatusOK
    THEN [err |-> ErrBodyStatus(IGTokenErrMsg, r.body, r.code), client |-> client]
    ELSE IF ~d.json THEN [err |-> ErrJSON, client |-> client]
    ELSE [err |-> Nil, client |-> WithToken(d)]

\* GetAccessToken(code), GetLongLivedAccessToken(), RefreshAccessToken()
IGToken ==
    /\ op \in IGTokenOps /\ pc = "start"
    /\ IF op # "GetAccessToken" /\ client.AccessToken = ""
       THEN /\ ret' = Return(NoVal, ErrorsNew("no access token available"))
            /\ UNCHANGED <<reqs, resps, lastResp, client>>
       ELSE \E r \in IGTokenAnswers :
            /\ reqs' = Append(reqs,
                    CASE op = "GetAccessToken" ->
                            Req("POST", "oauth/access_token", [code |-> args.code])
                      [] op = "GetLongLivedAccessToken" ->
                            Req("GET", "access_token", [access_token |-> client.AccessToken])
                      [] OTHER ->
                            Req("GET", "refresh_access_token",
                                [access_token |-> client.AccessToken]))
            /\ lastResp' = r
            /\ resps' = Append(resps, r)
            /\ client' = IGTokenOutcome(r).client
            /\ ret' = IF IGTokenOutcome(r).err # Nil
                      THEN Return(NoVal, IGTokenOutcome(r).err)
                      ELSE Return([AccessToken |-> DecodeIGToken(r.body).AccessToken,
                                   UserID |-> DecodeIGToken(r.body).UserID,
                                   none |-> FALSE], Nil)
    /\ pc' = "done"
    /\ UNCHANGED <<op, args, igLocals, liLocals, twLocals, sessLocals>>

----------------------------------------------------------------------------
(* LinkedIn: PostWithImage = UploadImage (InitiateImageUpload, PUT) and    *)
(* CreateImagePost                                                         *)

\* fmt.Errorf("<msg>%v", err): the message of err follows the prefix
WrapV(msg, err) == <<Lit(msg)>> \o err

\* answers to POST AssetUploadURL (register-upload)
RegisterBodies == {"not json", "{}", "{value:{}}", "{value:{uploadMechanism:{}}}",
                   "{value:{uploadMechanism:{req:{}},asset:urn1}}",
                   "{value:{uploadMechanism:{req:{uploadUrl:up1}}}}",
                   "{value:{uploadMechanism:{req:{uploadUrl:up1}},asset:urn1}}",
                   "{value:{uploadMechanism:{req:{uploadUrl:up2}},asset:urn2}}"}

\* the decoded register-upload answer: which parts are there
\* (req is the com.linkedin.digitalmedia.uploading.MediaUploadHttpRequest entry)
DecodeRegister(body) ==
    LET none == [json |-> FALSE, value |-> FALSE, mech |-> FALSE, req |-> FALSE,
                 uploadUrl |-> "", asset |-> ""]
    IN
    CASE body = "{}" -> [none EXCEPT !.json = TRUE]
      [] body = "{value:{}}" -> [none EXCEPT !.json = TRUE, !.value = TRUE]
      [] body = "{value:{uploadMechanism:{}}}" ->
            [none EXCEPT !.json = TRUE, !.value = TRUE, !.mech = TRUE]
      [] body = "{value:{uploadMechanism:{req:{}},asset:urn1}}" ->
            [none EXCEPT !.json = TRUE, !.value = TRUE, !.mech = TRUE, !.req = TRUE,
                         !.asset = "urn1"]
      [] body = "{value:{uploadMechanism:{req:{uploadUrl:up1}}}}" ->
            [none EXCEPT !.json = TRUE, !.value = TRUE, !.mech = TRUE, !.req = TRUE,
                         !.uploadUrl = "up1"]
      [] body = "{value:{uploadMechanism:{req:{uploadUrl:up1}},asset:urn1}}" ->
            [none EXCEPT !.json = TRUE, !.value = TRUE, !.mech = TRUE, !.req = TRUE,
                         !.uploadUrl = "up1", !.asset = "urn1"]
      [] body = "{value:{uploadMechanism:{req:{uploadUrl:up2}},asset:urn2}}" ->
            [none EXCEPT !.json = TRUE, !.value = TRUE, !.mech = TRUE, !.req = TRUE,
                         !.uploadUrl = "up2", !.asset = "urn2"]
      [] OTHER -> none

RegisterAnswers == {TransportError} \cup {HTTP(c, b) : c \in Codes, b \in RegisterBodies}

\* InitiateImageUpload after the request: panic (a failed single-value type
\* assertion), an error, or the asset URN and the upload URL
RegisterOutcome(r) ==
    LET d == DecodeRegister(r.body)
        fail(e) == [panic |-> FALSE, err |-> e, asset |-> "", uploadUrl |-> ""]
    IN
    IF r.neterr THEN fail(ErrTransport)
    ELSE IF r.code # StatusOK
    THEN fail(ErrBodyStatus("failed to initiate image upload: ", r.body, r.code))
    ELSE IF ~d.json THEN fail(ErrJSON)
    ELSE IF ~d.value THEN fail(ErrorsNew("invalid upload response structure"))
    ELSE IF ~d.mech THEN fail(ErrorsNew("invalid upload mechanism"))
    ELSE IF ~d.req THEN [panic |-> TRUE, err |-> Nil, asset |-> "", uploadUrl |-> ""]
    ELSE IF d.uploadUrl = "" THEN fail(ErrorsNew("could not find upload URL"))
    ELSE IF d.asset = "" THEN fail(ErrorsNew("could not find asset URN"))
    ELSE [panic |-> FALSE, err |-> Nil, asset |-> d.asset, uploadUrl |-> d.uploadUrl]

\* PostWithImage -> UploadImage -> InitiateImageUpload
LIRegister ==
    /\ op = "PostWithImage" /\ pc = "start"
    /\ IF client.AccessToken = ""
       THEN /\ ret' = Return(NoVal, WrapV("failed to upload image: ",
                                          ErrorsNew("access token is required")))
            /\ pc' = "done"
            /\ UNCHANGED <<reqs, resps, lastResp, assetURN, uploadURL>>
       ELSE \E r \in RegisterAnswers :
            LET out == RegisterOutcome(r) IN
            /\ reqs' = Append(reqs, Req("POST", "assets", [owner |-> client.UserID]))
            /\ lastResp' = r
            /\ resps' = Append(resps, r)
            /\ IF out.panic
               THEN /\ pc' = "panic"
                    /\ UNCHANGED <<ret, assetURN, uploadURL>>
               ELSE IF out.err # Nil
               THEN /\ ret' = Return(NoVal, WrapV("failed to upload image: ", out.err))
                    /\ pc' = "done"
                    /\ UNCHANGED <<assetURN, uploadURL>>
               ELSE /\ assetURN' = out.asset
                    /\ uploadURL' = out.uploadUrl
                    /\ pc' = "put"
                    /\ ret' = ret
    /\ UNCHANGED <<sessLocals, twLocals, op, client, args, igLocals, authorID>>

\* answers to the PUT of the file bytes
PutCodes == {StatusOK, StatusCreated, StatusNoContent, 500}
PutAnswers == {TransportError} \cup {HTTP(c, b) : c \in PutCodes, b \in {"", "denied"}}

\* a check that lets every answer of the PUT pass
PutAccepted_any(code) == code >= 0

\* UploadImage's check of the PUT answer
PutAccepted(code) ==
    code = StatusOK \/ code = StatusCreated \/ code = StatusNoContent

\* CreateImagePost: if authorType == "" { authorType = "person" }
AuthorType == IF args.authorType = "" THEN "person" ELSE args.authorType

\* UploadImage after InitiateImageUpload: read the file, PUT it; then
\* CreateImagePost up to its first request
LIPut ==
    /\ op = "PostWithImage" /\ pc = "put"
    /\ \/ \* os.Open or io.ReadAll fails
          /\ ret' = Return(NoVal, WrapV("failed to upload image: ", <<Cause("file")>>))
          /\ pc' = "done"
          /\ UNCHANGED <<reqs, resps, lastResp, authorID>>
       \/ \E r \in PutAnswers :
          /\ reqs' = Append(reqs, Req("PUT", uploadURL, [file |-> args.path]))
          /\ lastResp' = r
          /\ resps' = Append(resps, r)
          /\ IF r.neterr
             THEN /\ ret' = Return(NoVal, WrapV("failed to upload image: ", ErrTransport))
                  /\ pc' = "done"
                  /\ UNCHANGED authorID
             ELSE IF ~PutAccepted(r.code)
             THEN /\ ret' = Return(NoVal, WrapV("failed to upload image: ",
                              ErrBodyStatus("failed to upload image: ", r.body, r.code)))
                  /\ pc' = "done"
                  /\ UNCHANGED authorID
             ELSE /\ ret' = ret
                  /\ IF args.authorID = "" /\ AuthorType = "person"
                     THEN IF client.UserID = ""
                          THEN /\ pc' = "profile"
                               /\ UNCHANGED authorID
                          ELSE /\ pc' = "post"
                               /\ authorID' = client.UserID
                     ELSE /\ pc' = "post"
                          /\ authorID' = args.authorID
    /\ UNCHANGED <<sessLocals, twLocals, op, client, args, igLocals, assetURN, uploadURL>>

\* answers to GET /me
ProfileBodies == {"not json", "{}", "{id:u9}"}
ProfileAnswers == {TransportError} \cup
                  {HTTP(c, b) : c \in {StatusOK, 500}, b \in ProfileBodies}

\* GetUserProfile after the request: rawProfile["id"].(string) panics when
\* there is no string id
ProfileOutcome(r) ==
    IF r.neterr THEN [panic |-> FALSE, err |-> ErrTransport, id |-> ""]
    ELSE IF r.code # StatusOK
    THEN [panic |-> FALSE, id |-> "",
          err |-> ErrBodyStatus("failed to get profile: ", r.body, r.code)]
    ELSE IF r.body = "not json" THEN [panic |-> FALSE, err |-> ErrJSON, id |-> ""]
    ELSE IF r.body = "{id:u9}" THEN [panic |-> FALSE, err |-> Nil, id |-> "u9"]
    ELSE [panic |-> TRUE, err |-> Nil, id |-> ""]

\* the methods that end in a POST to UGCPostURL
LIPostOps == {"PostWithImage", "CreateTextPost", "CreateVideoPost"}

\* CreateTextPost, CreateVideoPost up to their first request: the token check,
\* the default author type, the author id
LICreateStart ==
    /\ op \in {"CreateTextPost", "CreateVideoPost"} /\ pc = "start"
    /\ IF client.AccessToken = ""
       THEN /\ ret' = Return(NoVal, ErrorsNew("access token is required"))
            /\ pc' = "done"
            /\ UNCHANGED <<authorID, assetURN>>
       ELSE /\ ret' = ret
            /\ assetURN' = args.videoAssetURN
            /\ IF args.authorID = "" /\ AuthorType = "person"
               THEN IF client.UserID = ""
                    THEN /\ pc' = "profile"
                         /\ UNCHANGED authorID
                    ELSE /\ pc' = "post"
                         /\ authorID' = client.UserID
               ELSE /\ pc' = "post"
                    /\ authorID' = args.authorID
    /\ UNCHANGED <<sessLocals, op, client, args, igLocals, twLocals, reqs, resps, lastResp, uploadURL>>

\* a GetUserProfile that does not keep the id
StoreUserID_none(id) == client

\* GetUserProfile: c.UserID = profile.ID
StoreUserID(id) == [client EXCEPT !.UserID = id]

\* CreateTextPost, CreateImagePost, CreateVideoPost:
\* profile, err := c.GetUserProfile()
LIProfile ==
    /\ op \in LIPostOps /\ pc = "profile"
    /\ \E r \in ProfileAnswers :
        LET out == ProfileOutcome(r) IN
        /\ reqs' = Append(reqs, Req("GET", "me", <<>>))
        /\ lastResp' = r
        /\ resps' = Append(resps, r)
        /\ IF out.panic
           THEN /\ pc' = "panic"
                /\ UNCHANGED <<ret, client, authorID>>
           ELSE IF out.err # Nil
           THEN /\ ret' = Return(NoVal, WrapV("could not determine user ID: ", out.err))
                /\ pc' = "done"
                /\ UNCHANGED <<client, authorID>>
           ELSE /\ client' = StoreUserID(out.id)
                /\ authorID' = out.id
                /\ pc' = "post"
                /\ ret' = ret
    /\ UNCHANGED <<sessLocals, twLocals, op, args, igLocals, assetURN, uploadURL>>

\* answers to POST UGCPostURL
PostBodies == {"not json", "{}", "{id:p1}"}
PostAnswers == {TransportError} \cup {HTTP(c, b) : c \in Codes, b \in PostBodies}

\* the text of the error for a refused post
PostErrMsg ==
    CASE op = "CreateTextPost" -> "failed to create post: "
      [] op = "CreateVideoPost" -> "failed to create video post: "
      [] OTHER -> "failed to create image post: "

\* CreateTextPost, CreateImagePost after the request
PostOutcome(r) ==
    IF r.neterr THEN [err |-> ErrTransport, id |-> ""]
    ELSE IF r.code # StatusCreated /\ r.code # StatusOK
    THEN [err |-> ErrBodyStatus(PostErrMsg, r.body, r.code), id |-> ""]
    ELSE IF r.body = "not json" THEN [err |-> ErrJSON, id |-> ""]
    ELSE IF r.body = "{id:p1}" THEN [err |-> Nil, id |-> "p1"]
    ELSE [err |-> ErrorsNew("invalid post response, no ID found"), id |-> ""]

PostVal(id) == [ID |-> id, StatusURL |-> "", none |-> FALSE]

\* what the method returns after the answer r
PostReturn(r) ==
    IF PostOutcome(r).err # Nil THEN Return(NoVal, PostOutcome(r).err)
    ELSE Return(PostVal(PostOutcome(r).id), Nil)

\* CreateVideoPost after the request: after the status check it decodes
\* req.Body into a map, drops the result, and returns nil, nil
VideoPostReturn(r) ==
    IF r.neterr THEN Return(NoVal, ErrTransport)
    ELSE IF r.code # StatusCreated /\ r.code # StatusOK
    THEN Return(NoVal, ErrBodyStatus(PostErrMsg, r.body, r.code))
    ELSE Return(NoVal, Nil)

\* "shareMediaCategory" of the post
MediaCategory ==
    CASE op = "CreateTextPost" -> "NONE"
      [] op = "CreateVideoPost" -> "VIDEO"
      [] OTHER -> "IMAGE"

\* CreateTextPost, CreateImagePost, CreateVideoPost: POST the UGC post (which
\* references the asset, if any)
LIPost ==
    /\ op \in LIPostOps /\ pc = "post"
    /\ \E r \in PostAnswers :
        /\ reqs' = Append(reqs, Req("POST", "ugcPosts",
                [author |-> <<"urn:li:", AuthorType, ":", authorID>>,
                 shareMediaCategory |-> MediaCategory,
                 media |-> assetURN, text |-> args.caption]))
        /\ lastResp' = r
        /\ resps' = Append(resps, r)
        /\ ret' = IF op = "CreateVideoPost" THEN VideoPostReturn(r) ELSE PostReturn(r)
        /\ pc' = "done"
    /\ UNCHANGED <<sessLocals, twLocals, op, client, args, igLocals, liLocals>>

----------------------------------------------------------------------------
(* One-request wrappers: ThreadService.GetThread, SlackClient.CreatePost,  *)
(* FaceBookClient.CreatePost                                               *)

WrapperCodes == {StatusOK, StatusNotFound, 500}

ThreadBodies == {"not json", "{id:t1}"}
ThreadAnswers == {TransportError} \cup
                 {HTTP(c, b) : c \in WrapperCodes, b \in ThreadBodies}

\* fmt.Errorf("<msg>: %w", err)
WrapW(msg, err) == <<Lit(msg)>> \o err

\* GetThread after the request
ThreadOutcome(r) ==
    IF r.neterr THEN [err |-> WrapW("error sending request: ", ErrTransport), id |-> ""]
    ELSE IF r.code = StatusNotFound THEN [err |-> ErrorsNew("thread not found"), id |-> ""]
    ELSE IF r.code # StatusOK
    THEN [err |-> <<Lit("API error (status "), StatusPart(r.code), Lit("): "),
                    BodyPart(r.body)>>, id |-> ""]
    ELSE IF r.body = "{id:t1}" THEN [err |-> Nil, id |-> "t1"]
    ELSE [err |-> WrapW("error decoding response: ", ErrJSON), id |-> ""]

GetThread ==
    /\ op = "GetThread" /\ pc = "start"
    /\ IF args.threadID = ""
       THEN /\ ret' = Return(NoVal, ErrorsNew("thread ID cannot be empty"))
            /\ UNCHANGED <<reqs, resps, lastResp>>
       ELSE \E r \in ThreadAnswers :
            LET out == ThreadOutcome(r) IN
            /\ reqs' = Append(reqs, Req("GET", "threads", [id |-> args.threadID]))
            /\ lastResp' = r
            /\ resps' = Append(resps, r)
            /\ ret' = IF out.err # Nil THEN Return(NoVal, out.err)
                      ELSE Return(PostVal(out.id), Nil)
    /\ pc' = "done"
    /\ UNCHANGED <<sessLocals, twLocals, op, client, args, igLocals, liLocals>>

SlackBodies == {"not json", "{ok:false,error:e}", "{ok:true}", "{ok:true,ts:1.5}"}
SlackAnswers == {TransportError} \cup
                {HTTP(c, b) : c \in WrapperCodes, b \in SlackBodies}

\* SlackClient.CreatePost after the request; the id is "<channelID>:<ts>"
SlackOutcome(r, channelID) ==
    IF r.neterr THEN [err |-> ErrTransport, id |-> <<>>]
    ELSE IF r.code # StatusOK THEN [err |-> <<Lit("error: "), BodyPart(r.body)>>, id |-> <<>>]
    ELSE IF r.body = "not json" THEN [err |-> ErrJSON, id |-> <<>>]
    ELSE IF r.body = "{ok:false,error:e}"
    THEN [err |-> <<Lit("slack API error: "), Lit("e")>>, id |-> <<>>]
    ELSE IF r.body = "{ok:true,ts:1.5}" THEN [err |-> Nil, id |-> <<channelID, ":", "1.5">>]
    ELSE [err |-> ErrorsNew("failed to extract message timestamp"), id |-> <<>>]

SlackCreatePost ==
    /\ op = "SlackCreatePost" /\ pc = "start"
    /\ \E r \in SlackAnswers :
        LET out == SlackOutcome(r, args.channelID) IN
        /\ reqs' = Append(reqs, Req("POST", "chat.postMessage",
                [channel |-> args.channelID, text |-> args.caption]))
        /\ lastResp' = r
        /\ resps' = Append(resps, r)
        /\ ret' = IF out.err # Nil THEN Return(NoVal, out.err)
                  ELSE Return([ID |-> out.id, StatusURL |-> "", none |-> FALSE], Nil)
    /\ pc' = "done"
    /\ UNCHANGED <<sessLocals, twLocals, op, client, args, igLocals, liLocals>>

FBBodies == {"not json", "{}", "{id:f1}", "{error:{message:m}}"}
FBAnswers == {TransportError} \cup {HTTP(c, b) : c \in WrapperCodes, b \in FBBodies}

\* FaceBookClient.CreatePost after the request: the status code is not looked
\* at; the decoded Response is returned, with an error when it has an Error
FBOutcome(r) ==
    IF r.neterr THEN Return(NoVal, ErrTransport)
    ELSE IF r.body = "not json" THEN Return(NoVal, ErrJSON)
    ELSE IF r.body = "{error:{message:m}}"
    THEN Return(PostVal(""), <<Lit("Facebook API error: "), Lit("m")>>)
    ELSE IF r.body = "{id:f1}" THEN Return(PostVal("f1"), Nil)
    ELSE Return(PostVal(""), Nil)

FBCreatePost ==
    /\ op = "FBCreatePost" /\ pc = "start"
    /\ \E r \in FBAnswers :
        /\ reqs' = Append(reqs, Req("POST", "feed",
                [access_token |-> client.AccessToken, message |-> args.caption]))
        /\ lastResp' = r
        /\ resps' = Append(resps, r)
        /\ ret' = FBOutcome(r)
    /\ pc' = "done"
    /\ UNCHANGED <<sessLocals, twLocals, op, client, args, igLocals, liLocals>>

----------------------------------------------------------------------------
(* Twitter: CreateTweet, ReplyToTweet, SearchRecentTweets *)

\* bodies of an answer to POST /tweets
TweetBodies == {"not json", "{}", "{data:{id:t1,text:hi}}"}
TweetAnswers == {TransportError} \cup {HTTP(c, b) : c \in Codes, b \in TweetBodies}

\* json.NewDecoder(resp.Body).Decode(&tweetResp) into a TweetResponse: absent
\* fields keep their zero value
DecodeTweet(body) ==
    CASE body = "{data:{id:t1,text:hi}}" -> [ok |-> TRUE, ID |-> "t1", Text |-> "hi"]
      [] body = "{}" -> [ok |-> TRUE, ID |-> "", Text |-> ""]
      [] OTHER -> [ok |-> FALSE, ID |-> "", Text |-> ""]

TweetVal(d) == [ID |-> d.ID, Text |-> d.Text, StatusURL |-> "", none |-> FALSE]

\* CreateTweet / ReplyToTweet after the request: (*Tweet, error)
TweetOutcome(r) ==
    IF r.neterr THEN Return(NoVal, WrapV("error sending request: ", ErrTransport))
    ELSE IF r.code # StatusCreated /\ r.code # StatusOK
    THEN Return(NoVal, <<Lit("API error: "), StatusPart(r.code), Lit(" - "), BodyPart(r.body)>>)
    ELSE IF ~DecodeTweet(r.body).ok
    THEN Return(NoVal, WrapV("error decoding response: ", ErrJSON))
    ELSE Return(TweetVal(DecodeTweet(r.body)), Nil)

\* TwitterClient.CreateTweet(text)
CreateTweet ==
    /\ op = "CreateTweet" /\ pc = "start"
    /\ \E r \in TweetAnswers :
        /\ reqs' = Append(reqs, Req("POST", "tweets", [text |-> args.caption]))
        /\ lastResp' = r
        /\ resps' = Append(resps, r)
        /\ ret' = TweetOutcome(r)
    /\ pc' = "done"
    /\ UNCHANGED <<sessLocals, op, client, args, igLocals, liLocals, twLocals>>

----------------------------------------------------------------------------
(* Twitter: AutomatedTweeter and AutoReplier; Start runs in a goroutine of  *)
(* its own, Stop is called from another                                    *)

LoopOps == {"AutomatedTweeter", "AutoReplier"}

\* the goroutines that may call Start; args.Starters names those that do
Goroutines == {1, 2}

\* ticks the tweeter's ticker delivers
MaxPosts == 3
\* longest Content slice
MaxContent == 2
\* ticks the repliers' tickers deliver
MaxTicks == 2
\* longest result list of a search
MaxTweets == 2

\* a goroutine that has not called Start; q, tweets, i, lastID are the locals
\* of AutoReplier.Start (q counts the queries handled in the current tick)
IdleG == [pc |-> "idle", q |-> 0, tweets |-> <<>>, i |-> 0, lastID |-> <<>>]

\* a panic ends the program
Panic(msg) ==
    /\ pc' = "panic"
    /\ crash' = msg

\* AutomatedTweeter.Stop, AutoReplier.Stop: close(StopChan); closing a closed
\* channel panics
Stop ==
    /\ op \in LoopOps /\ pc = "start"
    /\ IF stopChan = "open"
       THEN /\ stopChan' = "closed"
            /\ UNCHANGED <<pc, crash>>
       ELSE /\ Panic("close of closed channel")
            /\ UNCHANGED stopChan
    /\ UNCHANGED <<sessLocals, op, client, args, igLocals, liLocals, ret, reqs, resps, lastResp, gor,
                   CurrentIndex, ticks, LastTweetIDs, replied, searches>>

----------------------------------------------------------------------------
(* AutomatedTweeter *)

\* go at.Start(): ticker := time.NewTicker(at.PostInterval), then the select
TweeterStart ==
    /\ op = "AutomatedTweeter" /\ pc = "start" /\ gor[1].pc = "idle"
    /\ gor' = [gor EXCEPT ![1].pc = "select"]
    /\ UNCHANGED <<sessLocals, op, pc, client, args, igLocals, liLocals, ret, reqs, resps, lastResp,
                   stopChan, crash, CurrentIndex, ticks, LastTweetIDs, replied, searches>>

\* answers to the CreateTweet of a tick
TickAnswers == {TransportError, HTTP(500, "not json"), HTTP(StatusCreated, "{data:{id:t1,text:hi}}")}

\* a reset that starts again from the second item
TickIndex_second == IF CurrentIndex >= Len(args.Content) THEN 1 ELSE CurrentIndex

\* if at.CurrentIndex >= len(at.Content) { at.CurrentIndex = 0 }
TickIndex == IF CurrentIndex >= Len(args.Content) THEN 0 ELSE CurrentIndex

\* an index that stays on the item whose post failed
NextIndex_retry(index, err) == IF err # Nil THEN index ELSE index + 1

\* at.CurrentIndex++, whatever CreateTweet returned
NextIndex(index, err) == index + 1

\* select takes case <-ticker.C: the whole case
TweeterTick ==
    /\ op = "AutomatedTweeter" /\ pc = "start" /\ gor[1].pc = "select"
    /\ Len(reqs) < MaxPosts
    /\ IF TickIndex >= Len(args.Content)
       THEN \* at.Content[at.CurrentIndex]: index out of range
            /\ Panic("index out of range")
            /\ CurrentIndex' = TickIndex
            /\ UNCHANGED <<reqs, resps, lastResp>>
       ELSE \E r \in TickAnswers :
            /\ reqs' = Append(reqs, Req("POST", "tweets", [text |-> args.Content[TickIndex + 1]]))
            /\ lastResp' = r
            /\ resps' = Append(resps, r)
            /\ CurrentIndex' = NextIndex(TickIndex, TweetOutcome(r).err)
            /\ UNCHANGED <<pc, crash>>
    /\ UNCHANGED <<sessLocals, op, client, args, igLocals, liLocals, ret, stopChan, gor, ticks,
                   LastTweetIDs, replied, searches>>

\* select takes case <-at.StopChan: return (the deferred ticker.Stop() runs)
TweeterStopCase ==
    /\ op = "AutomatedTweeter" /\ pc = "start" /\ gor[1].pc = "select"
    /\ stopChan = "closed"
    /\ gor' = [gor EXCEPT ![1].pc = "returned"]
    /\ UNCHANGED <<sessLocals, op, pc, client, args, igLocals, liLocals, ret, reqs, resps, lastResp,
                   stopChan, crash, CurrentIndex, ticks, LastTweetIDs, replied, searches>>

----------------------------------------------------------------------------
(* AutoReplier *)

\* tweet ids are strings of decimal digits, here sequences of digits
TweetIDs == {<<5>>, <<9>>, <<1, 0>>}
NoID == <<>>

Queries == {"q1", "q2"}
QueryLists == {<<"q1">>, <<"q1", "q2">>}

\* Go's a <= b on strings: byte by byte, a prefix before the longer string
RECURSIVE StrLeq(_, _)
StrLeq(a, b) ==
    IF Len(a) = 0 THEN TRUE
    ELSE IF Len(b) = 0 THEN FALSE
    ELSE IF a[1] # b[1] THEN a[1] < b[1]
    ELSE StrLeq(Tail(a), Tail(b))

\* if lastID != "" && tweet.ID <= lastID { continue }
Skip(lastID, id) == lastID # NoID /\ StrLeq(id, lastID)

\* result lists of a search: tweets with distinct ids, in any order
ResultLists ==
    {l \in UNION {[1..k -> TweetIDs] : k \in 0..MaxTweets} :
        \A a, b \in 1..Len(l) : a # b => l[a] # l[b]}

\* bodies of an answer to GET /tweets/search/recent
NoData == [json |-> FALSE, data |-> <<>>]
SearchAnswers ==
    {[neterr |-> TRUE, code |-> 0, body |-> NoData], HTTP(500, NoData), HTTP(StatusOK, NoData)}
    \cup {HTTP(StatusOK, [json |-> TRUE, data |-> l]) : l \in ResultLists}

\* SearchRecentTweets after the request: ([]Tweet, error)
SearchOutcome(r) ==
    IF r.neterr THEN [err |-> WrapV("error sending request: ", ErrTransport), tweets |-> <<>>]
    ELSE IF r.code # StatusOK
    THEN [err |-> <<Lit("API error: "), StatusPart(r.code), Lit(" - "), BodyPart(r.body)>>,
          tweets |-> <<>>]
    ELSE IF ~r.body.json
    THEN [err |-> WrapV("error decoding response: ", ErrJSON), tweets |-> <<>>]
    ELSE [err |-> Nil, tweets |-> [k \in 1..Len(r.body.data) |-> [ID |-> r.body.data[k]]]]

\* go ar.Start(): ticker := time.NewTicker(ar.CheckInterval)
ReplierStart(g) ==
    /\ op = "AutoReplier" /\ pc = "start" /\ gor[g].pc = "idle"
    /\ g \in args.Starters
    /\ \A h \in args.Starters : h < g => gor[h].pc # "idle"
    /\ gor' = [gor EXCEPT ![g].pc = "init"]
    /\ UNCHANGED <<sessLocals, op, pc, client, args, igLocals, liLocals, ret, reqs, resps, lastResp,
                   stopChan, crash, CurrentIndex, ticks, LastTweetIDs, replied, searches>>

\* for _, query := range ar.SearchQueries { ar.LastTweetIDs[query] = "" }
ReplierInit(g) ==
    /\ op = "AutoReplier" /\ pc = "start" /\ gor[g].pc = "init"
    /\ LastTweetIDs' = [q \in Queries |->
            IF \E k \in 1..Len(args.SearchQueries) : args.SearchQueries[k] = q
            THEN NoID ELSE LastTweetIDs[q]]
    /\ gor' = [gor EXCEPT ![g].pc = "select"]
    /\ UNCHANGED <<sessLocals, op, pc, client, args, igLocals, liLocals, ret, reqs, resps, lastResp,
                   stopChan, crash, CurrentIndex, ticks, replied, searches>>

\* select takes case <-ticker.C: on to the first query
ReplierTick(g) ==
    /\ op = "AutoReplier" /\ pc = "start" /\ gor[g].pc = "select"
    /\ ticks < MaxTicks
    /\ ticks' = ticks + 1
    /\ gor' = [gor EXCEPT ![g].pc = IF Len(args.SearchQueries) = 0 THEN "select" ELSE "search"]
    /\ UNCHANGED <<sessLocals, op, pc, client, args, igLocals, liLocals, ret, reqs, resps, lastResp,
                   stopChan, crash, CurrentIndex, LastTweetIDs, replied, searches>>

\* select takes case <-ar.StopChan: return
ReplierStopCase(g) ==
    /\ op = "AutoReplier" /\ pc = "start" /\ gor[g].pc = "select"
    /\ stopChan = "closed"
    /\ gor' = [gor EXCEPT ![g].pc = "returned"]
    /\ UNCHANGED <<sessLocals, op, pc, client, args, igLocals, liLocals, ret, reqs, resps, lastResp,
                   stopChan, crash, CurrentIndex, ticks, LastTweetIDs, replied, searches>>

\* the goroutine's locals once it is done with the query l.q: the next query,
\* or back to the select after the last one
NextQuery(l) ==
    IF l.q + 1 >= Len(args.SearchQueries)
    THEN [IdleG EXCEPT !.pc = "select"]
    ELSE [IdleG EXCEPT !.pc = "search", !.q = l.q + 1]

\* one pass of the range over SearchQueries up to the inner loop:
\* SearchRecentTweets(query, 10), the two continue, lastID := ar.LastTweetIDs[query]
ReplierSearch(g) ==
    /\ op = "AutoReplier" /\ pc = "start" /\ gor[g].pc = "search"
    /\ \E r \in SearchAnswers :
        LET out == SearchOutcome(r)
            query == args.SearchQueries[gor[g].q + 1]
        IN
        /\ searches' = searches + 1
        /\ gor' = [gor EXCEPT ![g] =
                IF out.err # Nil \/ Len(out.tweets) = 0 THEN NextQuery(gor[g])
                ELSE [pc |-> "reply", q |-> gor[g].q, tweets |-> out.tweets,
                      i |-> Len(out.tweets) - 1, lastID |-> LastTweetIDs[query]]]
    /\ UNCHANGED <<sessLocals, op, pc, client, args, igLocals, liLocals, ret, reqs, resps, lastResp,
                   stopChan, crash, CurrentIndex, ticks, LastTweetIDs, replied>>

\* one pass of  for i := len(tweets) - 1; i >= 0; i--
ReplierReply(g) ==
    /\ op = "AutoReplier" /\ pc = "start" /\ gor[g].pc = "reply"
    /\ LET l == gor[g]
           query == args.SearchQueries[l.q + 1]
           tweet == l.tweets[l.i + 1]
       IN
       /\ IF Skip(l.lastID, tweet.ID)
          THEN UNCHANGED <<LastTweetIDs, replied>>
          ELSE /\ LastTweetIDs' = IF l.i = 0 THEN [LastTweetIDs EXCEPT ![query] = tweet.ID]
                                  ELSE LastTweetIDs
               /\ \E r \in TweetAnswers :
                    replied' = [replied EXCEPT ![<<query, tweet.ID>>] = @ + 1]
       /\ gor' = [gor EXCEPT ![g] = IF l.i = 0 THEN NextQuery(l)
                                    ELSE [l EXCEPT !.i = l.i - 1]]
    /\ UNCHANGED <<sessLocals, op, pc, client, args, igLocals, liLocals, ret, reqs, resps, lastResp,
                   stopChan, crash, CurrentIndex, ticks, searches>>

\* the goroutine's next step writes / reads the map ar.LastTweetIDs
MapWrite(g) ==
    \/ gor[g].pc = "init" /\ Len(args.SearchQueries) > 0
    \/ /\ gor[g].pc = "reply" /\ gor[g].i = 0
       /\ ~Skip(gor[g].lastID, gor[g].tweets[1].ID)
MapRead(g) == gor[g].pc = "search"

\* two goroutines about to use the map with nothing ordering them, one of
\* them writing
Race ==
    \E g, h \in Goroutines : g # h /\ MapWrite(g) /\ (MapWrite(h) \/ MapRead(h))

\* the runtime may end the program on an unsynchronised use of a map
\* (fatal error: concurrent map writes); otherwise the uses happen one after
\* the other
MapFault ==
    /\ op = "AutoReplier" /\ pc = "start" /\ Race
    /\ Panic("concurrent map writes")
    /\ UNCHANGED <<sessLocals, op, client, args, igLocals, liLocals, ret, reqs, resps, lastResp,
                   stopChan, gor, CurrentIndex, ticks, LastTweetIDs, replied, searches>>

----------------------------------------------------------------------------
(* Messaging: the methods that take a message id "A:B" - SlackClient's     *)
(* ReplyToComment and GetPostStats, TelegramClient.ReplyToComment,         *)
(* WhatsAppClient.ReplyToComment.  A string is the sequence of its pieces; *)
(* ":" and " " are pieces of their own.                                    *)

MsgOps == {"SlackReplyToComment", "SlackGetPostStats", "TelegramReplyToComment",
           "WhatsAppReplyToComment"}

\* message ids passed by the caller: channel and timestamp joined by ":" as
\* SlackClient.CreatePost returns them, a bare id, an id with a space
MessageIDs == {<<"C1", ":", "1.5">>, <<"C1">>, <<"C1", " ", ":", "1.5">>}

\* the verb %s of fmt.Sscanf: the pieces up to the first space or the end
RECURSIVE ScanWord(_)
ScanWord(s) ==
    IF s = <<>> \/ Head(s) = " " THEN <<>>
    ELSE <<Head(s)>> \o ScanWord(Tail(s))

\* fmt.Sscanf(id, "%s:%s", &first, &second), its error dropped: the first
\* word, then the literal ":" must be the next piece of the input, then the
\* second word; what was not scanned stays ""
Sscanf(s) ==
    LET first == ScanWord(s)
        rest == SubSeq(s, Len(first) + 1, Len(s))
    IN  IF rest # <<>> /\ Head(rest) = ":"
        THEN [first |-> first, second |-> ScanWord(Tail(rest))]
        ELSE [first |-> first, second |-> <<>>]

\* answers to the request of a ReplyToComment
ReplyAnswers ==
    {TransportError} \cup
    {HTTP(c, b) : c \in {StatusOK, StatusCreated, 500},
                  b \in CASE op = "SlackReplyToComment" -> SlackBodies
                          [] op = "TelegramReplyToComment" ->
                                {"not json", "{ok:false,description:d}", "{ok:true}",
                                 "{ok:true,result:{message_id:7}}"}
                          [] OTHER -> {"not json", "{}", "{messages:[{id:w1}]}"}}

\* ReplyToComment after the request; first is parts.ChannelID / parts.ChatID
ReplyOutcome(r, first) ==
    LET fail(e) == [err |-> e, id |-> <<>>] IN
    IF r.neterr THEN fail(ErrTransport)
    ELSE IF r.code # StatusOK /\ ~(op = "WhatsAppReplyToComment" /\ r.code = StatusCreated)
    THEN fail(<<Lit("error: "), BodyPart(r.body)>>)
    ELSE IF r.body = "not json" THEN fail(ErrJSON)
    ELSE CASE op = "SlackReplyToComment" ->
                IF r.body = "{ok:false,error:e}"
                THEN fail(<<Lit("slack API error: "), Lit("e")>>)
                ELSE IF r.body = "{ok:true,ts:1.5}"
                THEN [err |-> Nil, id |-> first \o <<":", "1.5">>]
                ELSE fail(ErrorsNew("failed to extract reply timestamp"))
           [] op = "TelegramReplyToComment" ->
                IF r.body = "{ok:false,description:d}"
                THEN fail(<<Lit("telegram API error: "), Lit("d")>>)
                ELSE IF r.body = "{ok:true,result:{message_id:7}}"
                THEN [err |-> Nil, id |-> first \o <<":", "7.000000">>]
                ELSE fail(ErrorsNew("failed to extract reply message ID"))
           [] OTHER ->
                IF r.body = "{messages:[{id:w1}]}" THEN [err |-> Nil, id |-> <<"w1">>]
                ELSE fail(ErrorsNew("failed to extract reply message ID"))

\* SlackClient.ReplyToComment, TelegramClient.ReplyToComment,
\* WhatsAppClient.ReplyToComment
Reply ==
    /\ op \in MsgOps \ {"SlackGetPostStats"} /\ pc = "start"
    /\ \E r \in ReplyAnswers :
        LET parts == Sscanf(args.messageID)
            out == ReplyOutcome(r, parts.first)
        IN
        /\ reqs' = Append(reqs,
                CASE op = "SlackReplyToComment" ->
                        Req("POST", "chat.postMessage",
                            [channel |-> parts.first, text |-> args.caption,
                             thread_ts |-> parts.second])
                  [] op = "TelegramReplyToComment" ->
                        Req("POST", "sendMessage",
                            [chat_id |-> parts.first, text |-> args.caption,
                             reply_to_message_id |-> parts.second])
                  [] OTHER ->
                        Req("POST", "messages",
                            [to |-> parts.first, text |-> args.caption,
                             message_id |-> parts.second]))
        /\ lastResp' = r
        /\ resps' = Append(resps, r)
        /\ ret' = IF out.err # Nil THEN Return(NoVal, out.err)
                  ELSE Return([ID |-> out.id, StatusURL |-> "", none |-> FALSE], Nil)
    /\ pc' = "done"
    /\ UNCHANGED <<op, client, args, igLocals, liLocals, twLocals, sessLocals>>

\* answers of conversations.history and of conversations.replies
HistoryAnswers ==
    {TransportError} \cup
    {HTTP(c, b) : c \in {StatusOK, 500},
                  b \in {"not json", "{ok:false,error:e}", "{ok:true}",
                         "{ok:true,messages:[]}", "{ok:true,messages:[m]}"}}
RepliesAnswers ==
    {TransportError} \cup
    {HTTP(c, b) : c \in {StatusOK, 500},
                  b \in {"not json", "{}", "{ok:false}", "{ok:true}",
                         "{ok:true,messages:[m,r]}"}}

\* SlackClient.GetPostStats up to the check of the first answer
StatsHistory ==
    /\ op = "SlackGetPostStats" /\ pc = "start"
    /\ \E r \in HistoryAnswers :
        LET parts == Sscanf(args.messageID)
            fail(e) == ret' = Return(NoVal, e) /\ pc' = "done"
        IN
        /\ reqs' = Append(reqs, Req("GET", "conversations.history",
                                    [channel |-> parts.first, latest |-> parts.second]))
        /\ lastResp' = r
        /\ resps' = Append(resps, r)
        /\ IF r.neterr THEN fail(ErrTransport)
           ELSE IF r.code # StatusOK THEN fail(<<Lit("error: "), BodyPart(r.body)>>)
           ELSE IF r.body = "not json" THEN fail(ErrJSON)
           ELSE IF r.body = "{ok:false,error:e}"
           THEN fail(<<Lit("slack API error: "), Lit("e")>>)
           ELSE ret' = ret /\ pc' = "replies"
    /\ UNCHANGED <<op, client, args, igLocals, liLocals, twLocals, sessLocals>>

\* SlackClient.GetPostStats from the second request on: the status of the
\* answer is not looked at; result["messages"].([]interface{})[0],
\* threadResult["ok"].(bool) and threadResult["messages"].([]interface{})
\* panic when the field is not there
StatsReplies ==
    /\ op = "SlackGetPostStats" /\ pc = "replies"
    /\ \E r \in RepliesAnswers :
        LET parts == Sscanf(args.messageID)
            result == resps[1].body
        IN
        /\ reqs' = Append(reqs, Req("GET", "conversations.replies",
                                    [channel |-> parts.first, ts |-> parts.second]))
        /\ lastResp' = r
        /\ resps' = Append(resps, r)
        /\ IF r.neterr \/ r.body = "not json"
           THEN /\ ret' = Return(NoVal, IF r.neterr THEN ErrTransport ELSE ErrJSON)
                /\ pc' = "done"
                /\ UNCHANGED crash
           ELSE IF result = "{ok:true}"
           THEN Panic("interface conversion") /\ UNCHANGED ret
           ELSE IF result = "{ok:true,messages:[]}"
           THEN Panic("index out of range") /\ UNCHANGED ret
           ELSE IF r.body \in {"{}", "{ok:true}"}
           THEN Panic("interface conversion") /\ UNCHANGED ret
           ELSE /\ ret' = Return([replies |-> IF r.body = "{ok:false}" THEN 0 ELSE 1,
                                  none |-> FALSE], Nil)
                /\ pc' = "done"
                /\ UNCHANGED crash
    /\ UNCHANGED <<op, client, args, igLocals, liLocals, stopChan, gor, CurrentIndex, ticks,
                   LastTweetIDs, replied, searches, sessLocals>>

\* the caller passes the id a successful SlackClient.CreatePost returned to
\* ReplyToComment or GetPostStats
SlackUsePosted ==
    /\ op = "SlackCreatePost" /\ pc = "done" /\ ret.err = Nil
    /\ op' \in {"SlackReplyToComment", "SlackGetPostStats"}
    /\ args' = [args EXCEPT !.messageID = ret.val.ID]
    /\ pc' = "start"
    /\ reqs' = <<>> /\ resps' = <<>>
    /\ ret' = NotReturned
    /\ lastResp' = NoResp
    /\ UNCHANGED <<client, igLocals, liLocals, twLocals, sessLocals>>

----------------------------------------------------------------------------
(* Reddit: Authenticate and makeRequest *)

\* the clock runs up to MaxTime
MaxTime == 3

\* answers to POST /api/v1/access_token; a body without the fields decodes to
\* the zero values
TokenAnswers ==
    {TransportError} \cup
    {HTTP(c, b) : c \in {StatusOK, 401},
                  b \in {"not json", "{}", "{access_token:t1,expires_in:0}",
                         "{access_token:t1,expires_in:2}"}}

\* json.NewDecoder(resp.Body).Decode(&result)
DecodeToken(body) ==
    CASE body = "{}" -> [json |-> TRUE, AccessToken |-> "", ExpiresIn |-> 0]
      [] body = "{access_token:t1,expires_in:0}" ->
            [json |-> TRUE, AccessToken |-> "t1", ExpiresIn |-> 0]
      [] body = "{access_token:t1,expires_in:2}" ->
            [json |-> TRUE, AccessToken |-> "t1", ExpiresIn |-> 2]
      [] OTHER -> [json |-> FALSE, AccessToken |-> "", ExpiresIn |-> 0]

\* a check that never looks at the expiry
TokenValid_noExpiry == reddit.AccessToken # ""

\* c.AccessToken != "" && time.Now().Before(c.TokenExpiry)
TokenValid == reddit.AccessToken # "" /\ now < reddit.TokenExpiry

\* Authenticate after the answer r: the error returned, the fields of the client
AuthOutcome(r) ==
    LET d == DecodeToken(r.body) IN
    IF r.neterr THEN [err |-> ErrTransport, reddit |-> reddit]
    ELSE IF r.code # StatusOK
    THEN [err |-> <<Lit("authentication failed with status code "), StatusPart(r.code),
                    Lit(": "), BodyPart(r.body)>>,
          reddit |-> reddit]
    ELSE IF ~d.json THEN [err |-> ErrJSON, reddit |-> reddit]
    ELSE [err |-> Nil,
          reddit |-> [AccessToken |-> d.AccessToken, TokenExpiry |-> now + d.ExpiresIn]]

\* makeRequest: if err := c.Authenticate(); err != nil { return nil, err }
RDAuthenticate ==
    /\ op = "makeRequest" /\ pc = "start"
    /\ IF TokenValid
       THEN /\ pc' = "api"
            /\ UNCHANGED <<reqs, resps, lastResp, ret, reddit>>
       ELSE \E r \in TokenAnswers :
            /\ reqs' = Append(reqs, Req("POST", "access_token", [grant_type |-> "password"]))
            /\ lastResp' = r
            /\ resps' = Append(resps, r)
            /\ reddit' = AuthOutcome(r).reddit
            /\ IF AuthOutcome(r).err # Nil
               THEN /\ ret' = Return(NoVal, AuthOutcome(r).err)
                    /\ pc' = "done"
               ELSE /\ ret' = ret
                    /\ pc' = "api"
    /\ UNCHANGED <<op, client, args, igLocals, liLocals, twLocals, now>>

\* makeRequest after Authenticate: the request with the bearer token, and the
\* check of the status
RDApi ==
    /\ op = "makeRequest" /\ pc = "api"
    /\ \E r \in {TransportError} \cup {HTTP(c, "{}") : c \in {StatusOK, StatusCreated, 401}} :
        /\ reqs' = Append(reqs, Req("POST", "oauth.reddit.com",
                                    [Authorization |-> reddit.AccessToken]))
        /\ lastResp' = r
        /\ resps' = Append(resps, r)
        /\ ret' = IF r.neterr THEN Return(NoVal, ErrTransport)
                  ELSE IF ~Is2xx(r.code)
                  THEN Return(NoVal, <<Lit("API request failed with status code "),
                                       StatusPart(r.code), Lit(": "), BodyPart(r.body)>>)
                  ELSE Return([body |-> r.body, none |-> FALSE], Nil)
        /\ pc' = "done"
    /\ UNCHANGED <<op, client, args, igLocals, liLocals, twLocals, sessLocals>>

\* time passes
RDClock ==
    /\ op = "makeRequest" /\ now < MaxTime
    /\ now' = now + 1
    /\ UNCHANGED <<op, pc, client, args, reqs, resps, lastResp, ret, igLocals, liLocals,
                   twLocals, reddit>>

\* the caller makes another makeRequest on the same RedditClient; reqs and
\* resps start again with the call
RDNextCall ==
    /\ op = "makeRequest" /\ pc = "done"
    /\ pc' = "start"
    /\ reqs' = <<>> /\ resps' = <<>>
    /\ ret' = NotReturned
    /\ lastResp' = NoResp
    /\ UNCHANGED <<op, client, args, igLocals, liLocals, twLocals, sessLocals>>

----------------------------------------------------------------------------
(* The calls *)

SeqsUpTo(S, n) == UNION {[1..k -> S] : k \in 0..n}

Clients == [AccessToken : {"", "tok"}, UserID : {"", "17"}]

NoArgs == [path |-> "", caption |-> "hi", cover |-> "", shareToFeed |-> FALSE,
           mediaPaths |-> <<>>, authorType |-> "", authorID |-> "",
           threadID |-> "", channelID |-> "", videoAssetURN |-> "",
           Content |-> <<>>, SearchQueries |-> <<>>, Starters |-> {}, code |-> "", messageID |-> <<>>]

ArgsOf(o) ==
    CASE o = "PostImage" -> {[NoArgs EXCEPT !.path = "a.jpg"]}
      [] o = "PostReel" ->
            {[NoArgs EXCEPT !.path = "b.MP4", !.cover = c, !.shareToFeed = s] :
                c \in {"", "c.jpg"}, s \in BOOLEAN}
      [] o = "PostCarousel" ->
            {[NoArgs EXCEPT !.mediaPaths = m] : m \in SeqsUpTo(Paths, MaxPaths)}
      [] o = "PostWithImage" ->
            {[NoArgs EXCEPT !.path = "a.jpg", !.authorType = t, !.authorID = a] :
                t \in {"", "organization"}, a \in {"", "a1"}}
      [] o = "CreateTextPost" ->
            {[NoArgs EXCEPT !.authorType = t, !.authorID = a] :
                t \in {"", "organization"}, a \in {"", "a1"}}
      [] o = "CreateVideoPost" ->
            {[NoArgs EXCEPT !.videoAssetURN = "urn9", !.authorType = t, !.authorID = a] :
                t \in {"", "organization"}, a \in {"", "a1"}}
      [] o = "CreateTweet" -> {NoArgs}
      [] o = "GetThread" -> {[NoArgs EXCEPT !.threadID = t] : t \in {"", "t1"}}
      [] o = "SlackCreatePost" -> {[NoArgs EXCEPT !.channelID = "C1"]}
      [] o = "FBCreatePost" -> {NoArgs}
      [] o = "AutomatedTweeter" ->
            {[NoArgs EXCEPT !.Content = c] : c \in SeqsUpTo({"a", "b"}, MaxContent)}
      [] o = "AutoReplier" -> {[NoArgs EXCEPT !.SearchQueries = l] : l \in QueryLists}
      [] o = "makeRequest" -> {NoArgs}
      [] o \in MsgOps -> {[NoArgs EXCEPT !.messageID = m] : m \in MessageIDs}
      [] o = "GetAccessToken" -> {[NoArgs EXCEPT !.code = "c0de"]}
      [] o = "GetLongLivedAccessToken" -> {NoArgs}
      [] o = "RefreshAccessToken" -> {NoArgs}

WrapperOps == {"GetThread", "SlackCreatePost", "FBCreatePost", "CreateTweet"}
CallOps == IGOps \cup IGTokenOps \cup LIPostOps \cup WrapperOps \cup MsgOps
Ops == CallOps \cup LoopOps

\* the state after construction, for a call of one of the methods ops, or a
\* use of a tweeter or replier whose Start is called by the goroutines starters
InitWith(ops, starters) ==
    /\ op \in ops
    /\ pc = "start"
    /\ client \in IF op \in LoopOps \cup {"makeRequest"}
                 THEN {[AccessToken |-> "tok", UserID |-> ""]}
                 ELSE Clients
    /\ args \in {[a EXCEPT !.Starters = IF op \in LoopOps THEN starters ELSE {}] :
                    a \in ArgsOf(op)}
    /\ reqs = <<>>
    /\ resps = <<>>
    /\ mediaResp = NoMedia
    /\ carouselResp = NoMedia
    /\ childrenIDs = <<>>
    /\ idx = 0
    /\ i = 0
    /\ statusReqs = 0
    /\ statusResp = NoResp
    /\ waitErr = Nil
    /\ lastResp = NoResp
    /\ assetURN = ""
    /\ uploadURL = ""
    /\ authorID = ""
    /\ ret = NotReturned
    /\ stopChan = "open"
    /\ crash = ""
    /\ gor = [g \in Goroutines |-> IdleG]
    /\ CurrentIndex = 0
    /\ ticks = 0
    /\ LastTweetIDs = [q \in Queries |-> NoID]
    /\ replied = [p \in Queries \X TweetIDs |-> 0]
    /\ searches = 0
    /\ reddit = [AccessToken |-> "", TokenExpiry |-> 0]
    /\ now = 1

\* the caller makes another call on the same LinkedInClient; reqs and resps
\* start again with the call
LINextCall ==
    /\ op \in LIPostOps /\ pc = "done"
    /\ op' \in LIPostOps
    /\ args' \in ArgsOf(op')
    /\ pc' = "start"
    /\ reqs' = <<>> /\ resps' = <<>>
    /\ ret' = NotReturned
    /\ lastResp' = NoResp
    /\ assetURN' = "" /\ uploadURL' = "" /\ authorID' = ""
    /\ UNCHANGED <<client, igLocals, twLocals, sessLocals>>

\* Start is called by one goroutine
Init == InitWith(Ops, {1})

Next ==
    \/ IGCheckToken
    \/ ImageCreate
    \/ ImagePublish
    \/ ReelCreate
    \/ WaitPoll
    \/ WaitTimeout
    \/ ReelAfterWait
    \/ ReelPublish
    \/ CarouselChild
    \/ CarouselAfterWait
    \/ CarouselContainer
    \/ CarouselPublish
    \/ LIRegister
    \/ LICreateStart
    \/ LIPut
    \/ LIProfile
    \/ LIPost
    \/ GetThread
    \/ SlackCreatePost
    \/ FBCreatePost
    \/ CreateTweet
    \/ IGToken
    \/ Reply
    \/ StatsHistory
    \/ StatsReplies
    \/ Stop
    \/ TweeterStart
    \/ TweeterTick
    \/ TweeterStopCase
    \/ \E g \in Goroutines : ReplierStart(g)
    \/ \E g \in Goroutines : ReplierInit(g)
    \/ \E g \in Goroutines : ReplierTick(g)
    \/ \E g \in Goroutines : ReplierStopCase(g)
    \/ \E g \in Goroutines : ReplierSearch(g)
    \/ \E g \in Goroutines : ReplierReply(g)

Spec == Init /\ [][Next]_vars

\* one AutoReplier whose Start is called by two goroutines
RaceInit == InitWith({"AutoReplier"}, Goroutines)

RaceNext ==
    \/ Stop
    \/ \E g \in Goroutines : ReplierStart(g)
    \/ \E g \in Goroutines : ReplierInit(g)
    \/ \E g \in Goroutines : ReplierTick(g)
    \/ \E g \in Goroutines : ReplierStopCase(g)
    \/ \E g \in Goroutines : ReplierSearch(g)
    \/ \E g \in Goroutines : ReplierReply(g)
    \/ MapFault

RaceSpec == RaceInit /\ [][RaceNext]_vars

\* the scheduler lets every goroutine that can take a step take one, and a
\* select that finds StopChan closed again and again takes that case in the
\* end (it picks among the ready cases at random)
Fairness ==
    /\ SF_vars(TweeterStopCase)
    /\ \A g \in Goroutines :
        /\ WF_vars(ReplierInit(g) \/ ReplierSearch(g) \/ ReplierReply(g))
        /\ SF_vars(ReplierStopCase(g))

\* one AutomatedTweeter or AutoReplier with its Start and Stop calls, under
\* that scheduling
LoopInit == InitWith(LoopOps, {1})

LoopNext ==
    \/ Stop
    \/ TweeterStart
    \/ TweeterTick
    \/ TweeterStopCase
    \/ \E g \in Goroutines : ReplierStart(g)
    \/ \E g \in Goroutines : ReplierInit(g)
    \/ \E g \in Goroutines : ReplierTick(g)
    \/ \E g \in Goroutines : ReplierStopCase(g)
    \/ \E g \in Goroutines : ReplierSearch(g)
    \/ \E g \in Goroutines : ReplierReply(g)

FairSpec == LoopInit /\ [][LoopNext]_vars /\ Fairness

\* calls of the post-creating methods of one LinkedInClient, one after the other
SessionNext ==
    \/ LIRegister
    \/ LIPut
    \/ LICreateStart
    \/ LIProfile
    \/ LIPost
    \/ LINextCall

SessionSpec == InitWith(LIPostOps, {1}) /\ [][SessionNext]_vars

\* the messaging methods, called with an id the caller has or with the id
\* that SlackClient.CreatePost returned
MsgNext ==
    \/ SlackCreatePost
    \/ SlackUsePosted
    \/ Reply
    \/ StatsHistory
    \/ StatsReplies

MsgSpec == InitWith(MsgOps \cup {"SlackCreatePost"}, {1}) /\ [][MsgNext]_vars

\* calls of makeRequest on one RedditClient, one after the other, while time
\* passes
RedditNext ==
    \/ RDAuthenticate
    \/ RDApi
    \/ RDClock
    \/ RDNextCall

RedditSpec == InitWith({"makeRequest"}, {1}) /\ [][RedditNext]_vars

----------------------------------------------------------------------------
(* Properties of waitForMediaProcessing *)

StatusOf(r) == DecodeStatus(r.body).status
InWait == pc = "wait" \/ pc = "waited"
TimedOut == pc = "waited" /\ waitErr = ErrorsNew("media processing timed out")

\* C1: when no answer carries a terminal status, waitForMediaProcessing
\* returns the 'media processing timed out' error after exactly 30 status
\* requests: while it loops each request uses up one attempt and the last
\* status was not terminal, a 31st request is never sent, after the 30th
\* non-terminal answer the only step left is the timeout return, and the
\* timeout error is returned in no other case.
C1_TimeoutAfter30 ==
    /\ statusReqs <= 30
    /\ pc = "wait" => /\ statusReqs = i
                      /\ waitErr = Nil
                      /\ statusReqs > 0 => StatusOf(statusResp) \notin {"FINISHED", "ERROR"}
    /\ (pc = "wait" /\ statusReqs = 30) => ~ENABLED WaitPoll /\ ENABLED WaitTimeout
    /\ (pc = "wait" /\ statusReqs < 30) => ENABLED WaitPoll /\ ~ENABLED WaitTimeout
    /\ TimedOut => statusReqs = 30 /\ StatusOf(statusResp) \notin {"FINISHED", "ERROR"}

C1_Witness == TimedOut /\ statusReqs = 30

\* C2: waitForMediaProcessing returns nil exactly when a status answer says
\* FINISHED, and at the first such answer: every earlier answer of the call
\* was not FINISHED (the loop goes on only after a non-terminal status), the
\* k-th request was the last one (k = i + 1 <= 30), and no further status
\* request can be sent once it has returned.
C2_FinishedStopsPolling ==
    /\ (pc = "waited" /\ waitErr = Nil) =>
            /\ StatusOf(statusResp) = "FINISHED"
            /\ statusReqs = i + 1
            /\ statusReqs \in 1..30
    /\ (InWait /\ statusReqs > 0 /\ StatusOf(statusResp) = "FINISHED") =>
            pc = "waited" /\ waitErr = Nil
    /\ pc = "waited" => ~ENABLED WaitPoll

C2_Witness == pc = "waited" /\ waitErr = Nil /\ statusReqs = 30 /\ op = "PostReel"

----------------------------------------------------------------------------
(* Properties of the Instagram handshake *)

IsPublishReq(r) == r.url = "media_publish"
IsStatusReq(r) == r.method = "GET"
IsChildReq(r) == r.url = "media" /\ "is_carousel_item" \in DOMAIN r.params
IsContainerReq(r) == r.url = "media" /\ "children" \in DOMAIN r.params
SentPublish == \E k \in 1..Len(reqs) : IsPublishReq(reqs[k])
SentStatus == \E k \in 1..Len(reqs) : IsStatusReq(reqs[k])
SentContainer == \E k \in 1..Len(reqs) : IsContainerReq(reqs[k])
ChildReqs == Cardinality({k \in 1..Len(reqs) : IsChildReq(reqs[k])})

ProcessingFailed(e) == StartsWith(e, "media processing failed: ")

\* C3: at the first ERROR status answer waitForMediaProcessing returns the
\* error 'media processing failed: <body>' with the body of that answer, and
\* PostReel / PostCarousel return that same error; the status request stays
\* the last request sent: no media_publish request follows.
C3_ErrorStatusAborts ==
    op \in {"PostReel", "PostCarousel"} =>
        /\ (InWait /\ statusReqs > 0 /\ StatusOf(statusResp) = "ERROR") =>
                /\ pc = "waited"
                /\ waitErr = <<Lit("media processing failed: "), BodyPart(statusResp.body)>>
        /\ ProcessingFailed(waitErr) =>
                /\ pc \in {"waited", "done"}
                /\ StatusOf(statusResp) = "ERROR"
                /\ ContainsBody(waitErr, statusResp.body)
                /\ IsStatusReq(reqs[Len(reqs)])
                /\ ~SentPublish
        /\ (pc = "done" /\ ProcessingFailed(waitErr)) =>
                ret.err = waitErr /\ ret.val = NoVal

C3_Witness ==
    /\ op = "PostReel" /\ pc = "done" /\ ProcessingFailed(ret.err)
    /\ ContainsBody(ret.err, "{status_code:ERROR}")

\* C5: PostReel sends media_publish only after a creation request answered
\* 200 with a decodable body; with a status URL in that answer the requests
\* are creation, status check(s), publish and the last status answer said
\* FINISHED; without one they are creation, publish, and no status request
\* is ever sent.
C5_ReelPublishOrder ==
    op = "PostReel" =>
        /\ SentStatus =>
                /\ Len(resps) >= 1 /\ resps[1].code = 200
                /\ DecodeMedia(resps[1].body).StatusURL # ""
                /\ reqs[2] = Req("GET", DecodeMedia(resps[1].body).StatusURL, <<>>)
        /\ (pc = "publish" \/ SentPublish) =>
                /\ Len(resps) >= 1
                /\ ~resps[1].neterr /\ resps[1].code = 200
                /\ DecodeMedia(resps[1].body).ok
                /\ reqs[1].url = "media" /\ reqs[1].params.media_type = "REELS"
                /\ IF DecodeMedia(resps[1].body).StatusURL # ""
                   THEN /\ Len(reqs) >= 2
                        /\ IsStatusReq(reqs[2])
                        /\ StatusOf(statusResp) = "FINISHED"
                        /\ waitErr = Nil
                        /\ SentPublish => Len(reqs) = 3 /\ IsPublishReq(reqs[3])
                   ELSE /\ ~SentStatus
                        /\ SentPublish => Len(reqs) = 2 /\ IsPublishReq(reqs[2])

C5_Witness ==
    /\ op = "PostReel" /\ pc = "done" /\ ret.err = Nil
    /\ Len(reqs) = 3 /\ IsStatusReq(reqs[2]) /\ IsPublishReq(reqs[3])

\* C6: when PostCarousel ends while a child is still outstanding (its
\* container creation or its media processing failed), it returns an error
\* and no value, has sent creation requests for the children up to the
\* failing one only, and has sent neither the carousel-container request nor
\* a publish request; and a failed creation or wait is never followed by a
\* further step of the loop.
C6_CarouselNoPartialRecovery ==
    op = "PostCarousel" =>
        /\ (pc = "done" /\ idx < Len(args.mediaPaths)) =>
                /\ ret.err # Nil /\ ret.val = NoVal
                /\ ChildReqs \in {0, idx + 1}
                /\ ChildReqs = 0 => reqs = <<>>
                /\ ~SentContainer
                /\ ~SentPublish
        /\ waitErr # Nil => pc \in {"waited", "done"} /\ idx < Len(args.mediaPaths)
        /\ (pc = "done" /\ waitErr # Nil) => ret.err = waitErr
        /\ (pc \in {"loop", "wait", "waited"} /\ Len(reqs) > 0) =>
                ~lastResp.neterr /\ lastResp.code = 200 /\ DecodeMedia(lastResp.body).ok
        /\ SentContainer => idx = Len(args.mediaPaths)

C6_Witness ==
    /\ op = "PostCarousel" /\ pc = "done" /\ Len(args.mediaPaths) = 2 /\ idx = 1
    /\ waitErr # Nil /\ ChildReqs = 2

\* the media path a child creation request carries
PathOf(r) == IF r.params.media_type = "VIDEO" THEN r.params.video_url
             ELSE r.params.image_url
\* the number of child creation requests among the first k requests
ChildrenUpTo(k) == Cardinality({j \in 1..k : IsChildReq(reqs[j])})

\* C7: PostCarousel's child creation requests are for mediaPaths[1],
\* mediaPaths[2], ... in that order; a child whose answer carried a status
\* URL is polled right after its creation and before anything else is sent;
\* the carousel-container request comes after all of them, and its children
\* parameter names the ids of the children's answers, one per media path, in
\* the order of mediaPaths, separated by commas.
C7_CarouselChildrenInOrder ==
    op = "PostCarousel" =>
        /\ \A k \in 1..Len(reqs) :
            LET n == ChildrenUpTo(k) IN
            /\ IsChildReq(reqs[k]) =>
                    /\ n <= Len(args.mediaPaths)
                    /\ PathOf(reqs[k]) = args.mediaPaths[n]
                    /\ (k < Len(reqs) /\ DecodeMedia(resps[n].body).StatusURL # "") =>
                            reqs[k + 1] = Req("GET", DecodeMedia(resps[n].body).StatusURL, <<>>)
            /\ IsStatusReq(reqs[k]) =>
                    /\ k > 1 /\ IsChildReq(reqs[k - 1])
                    /\ reqs[k].url = DecodeMedia(resps[n].body).StatusURL
            /\ IsContainerReq(reqs[k]) =>
                    LET m == Len(args.mediaPaths)
                        children == reqs[k].params.children
                    IN
                    /\ n = m /\ Len(resps) >= m
                    /\ \A j \in 1..(k - 1) : IsChildReq(reqs[j]) \/ IsStatusReq(reqs[j])
                    /\ Len(children) = IF m = 0 THEN 0 ELSE 2 * m - 1
                    /\ \A j \in 1..m : children[2 * j - 1] = DecodeMedia(resps[j].body).ID
                    /\ \A j \in 1..(m - 1) : children[2 * j] = ","
        /\ childrenIDs = [j \in 1..idx |-> DecodeMedia(resps[j].body).ID]

C7_Witness ==
    /\ op = "PostCarousel" /\ SentContainer /\ Len(args.mediaPaths) = 2
    /\ DecodeMedia(resps[1].body).ID # DecodeMedia(resps[2].body).ID
    /\ DecodeMedia(resps[1].body).StatusURL # ""

\* C4: in PostReel and PostCarousel an answer with a status outside 200..299
\* to any request - container creation, status poll, publish - ends the
\* operation at once with an error that contains the answer's body: after
\* such an answer to a creation or publish request the method has returned
\* that error, and after such an answer to a status poll the wait has
\* returned that error.
C4_Non2xxAbortsEveryStep ==
    op \in {"PostReel", "PostCarousel"} =>
        /\ (Len(resps) > 0 /\ ~lastResp.neterr /\ ~Is2xx(lastResp.code)) =>
                pc = "done" /\ ContainsBody(ret.err, lastResp.body)
        /\ (InWait /\ statusReqs > 0 /\ ~statusResp.neterr /\ ~Is2xx(statusResp.code)) =>
                pc = "waited" /\ ContainsBody(waitErr, statusResp.body)

----------------------------------------------------------------------------
(* Properties of the publish step, of LinkedIn's PostWithImage, and of the *)
(* error messages                                                          *)

IsPostReq(r) == r.url = "ugcPosts"
IsPutReq(r) == r.method = "PUT"
SentPost == \E k \in 1..Len(reqs) : IsPostReq(reqs[k])

\* C8: the publish request names the id the creation step of the same call
\* got back: PostImage and PostReel publish the id of their creation answer;
\* PostCarousel publishes the id of the carousel container's answer (the
\* answer after those of the children); PostWithImage's post request carries
\* the asset URN of the register-upload answer.
C8_PublishReferencesCreatedID ==
    \A k \in 1..Len(reqs) :
        /\ (op \in {"PostImage", "PostReel"} /\ IsPublishReq(reqs[k])) =>
                /\ resps[1].code = 200
                /\ reqs[k].params.creation_id = DecodeMedia(resps[1].body).ID
        /\ (op = "PostCarousel" /\ IsPublishReq(reqs[k])) =>
                LET m == Len(args.mediaPaths) IN
                /\ k > 1 /\ IsContainerReq(reqs[k - 1])
                /\ Len(resps) > m /\ resps[m + 1].code = 200
                /\ reqs[k].params.creation_id = DecodeMedia(resps[m + 1].body).ID
        /\ (op = "PostWithImage" /\ IsPostReq(reqs[k])) =>
                /\ reqs[1].url = "assets" /\ resps[1].code = 200
                /\ reqs[k].params.media = DecodeRegister(resps[1].body).asset
                /\ reqs[k].params.media # ""

\* a carousel published under its container's id, which differs from the
\* id of its last child
C8_Witness ==
    /\ op = "PostCarousel" /\ pc = "done" /\ SentPublish
    /\ Len(args.mediaPaths) = 2
    /\ DecodeMedia(resps[3].body).ID # DecodeMedia(resps[2].body).ID

\* C9: PostWithImage sends register-upload first, then the PUT to the upload
\* URL of the register-upload answer, then (after at most a profile request)
\* the post request, which is its last request; the post request is sent
\* only when register-upload answered 200 and the PUT answered 200, 201 or
\* 204; otherwise the call has sent no post request and, if it returned,
\* returned an error.
C9_LinkedInUploadOrder ==
    op = "PostWithImage" =>
        /\ \A k \in 1..Len(reqs) :
            /\ reqs[k].url = "assets" => k = 1
            /\ IsPutReq(reqs[k]) =>
                    /\ k = 2 /\ reqs[1].url = "assets" /\ resps[1].code = 200
                    /\ reqs[k].url = DecodeRegister(resps[1].body).uploadUrl
                    /\ reqs[k].url # ""
            /\ IsPostReq(reqs[k]) =>
                    /\ k = Len(reqs) /\ k \in {3, 4}
                    /\ reqs[1].url = "assets" /\ IsPutReq(reqs[2])
                    /\ k = 4 => reqs[3].url = "me"
                    /\ resps[1].code = 200
                    /\ resps[2].code \in {200, 201, 204}
        /\ ( \/ (Len(resps) >= 1 /\ (resps[1].neterr \/ resps[1].code # 200))
             \/ (Len(resps) >= 2 /\ (resps[2].neterr \/ resps[2].code \notin {200, 201, 204})) ) =>
                /\ ~SentPost
                /\ pc = "done" /\ ret.err # Nil /\ ret.val = NoVal

C9_Witness ==
    /\ op = "PostWithImage" /\ pc = "done" /\ ret.err = Nil
    /\ Len(reqs) = 4 /\ resps[2].code = 204

\* C10: every wrapper answers a non-success HTTP status (outside 200..299)
\* with an error whose message contains the status code and the raw body of
\* the answer.
C10_NonSuccessStatusInError ==
    (pc = "done" /\ Len(resps) > 0 /\ ~lastResp.neterr /\ ~Is2xx(lastResp.code)) =>
        /\ ret.err # Nil
        /\ ContainsStatus(ret.err, lastResp.code)
        /\ ContainsBody(ret.err, lastResp.body)

----------------------------------------------------------------------------
(* Properties of the results of the post-creating methods *)

IsTweetReq(r) == r.url = "tweets"

\* the request of the method that creates the post
IsCreatingReq(r) ==
    CASE op \in IGOps -> IsPublishReq(r)
      [] op \in LIPostOps -> IsPostReq(r)
      [] op = "CreateTweet" -> IsTweetReq(r)
      [] OTHER -> FALSE

\* the id of the created object in a body, "" when the body names none
CreatedID(body) ==
    CASE op \in IGOps -> DecodeMedia(body).ID
      [] op \in LIPostOps -> IF body = "{id:p1}" THEN "p1" ELSE ""
      [] op = "CreateTweet" -> DecodeTweet(body).ID
      [] OTHER -> ""

\* the method has returned after its creating request was answered 200 with
\* a body that names the id of the created object
CreatedOK ==
    /\ op \in IGOps \cup LIPostOps \cup {"CreateTweet"}
    /\ pc = "done" /\ Len(reqs) > 0 /\ IsCreatingReq(reqs[Len(reqs)])
    /\ ~lastResp.neterr /\ lastResp.code = StatusOK
    /\ CreatedID(lastResp.body) # ""

\* C11: when the creating request of PostImage, PostReel, PostCarousel,
\* CreateTextPost, CreateImagePost (through PostWithImage), CreateVideoPost or
\* CreateTweet is answered 200 with a JSON body that names the created
\* object's id, the method returns a nil error and a non-nil result whose ID
\* is that id.
C11_SuccessYieldsTypedResult ==
    CreatedOK =>
        /\ ret.err = Nil
        /\ ret.val # NoVal
        /\ ret.val.ID = CreatedID(lastResp.body)

----------------------------------------------------------------------------
(* Properties of AutomatedTweeter and AutoReplier *)

Stopped == op \in LoopOps /\ stopChan = "closed"
InStart(g) == gor[g].pc \notin {"idle", "returned"}

\* C12: once Stop has been called on an AutomatedTweeter (StopChan is
\* closed), no step of Start sends a CreateTweet request.
C12_NoTweetAfterStop ==
    [][(op = "AutomatedTweeter" /\ stopChan = "closed") => reqs' = reqs]_vars

\* C13: once Stop has been called on an AutoReplier, no step of Start sends a
\* SearchRecentTweets or ReplyToTweet request, also when the stop signal
\* arrives in the middle of a tick's queries and replies.
C13_NoSearchOrReplyAfterStop ==
    [][(op = "AutoReplier" /\ stopChan = "closed") =>
            (searches' = searches /\ replied' = replied)]_vars

\* C14: after Stop was called on an AutomatedTweeter or AutoReplier whose
\* Start is running, that Start eventually returns (runs in which Stop is
\* called once more, which ends the program, are not the case stated here).
C14_StopLeadsToReturn ==
    \A g \in Goroutines :
        (Stopped /\ InStart(g)) ~>
            (gor[g].pc = "returned" \/ crash = "close of closed channel")

\* the number a string of digits stands for
RECURSIVE NumOf(_)
NumOf(id) == IF Len(id) = 0 THEN 0
             ELSE 10 * NumOf(SubSeq(id, 1, Len(id) - 1)) + id[Len(id)]

\* the ids replied to for a query, and the numerically greatest of them
RepliedTo(q) == {id \in TweetIDs : replied[<<q, id>>] > 0}
GreatestReplied(q) ==
    IF RepliedTo(q) = {} THEN NoID
    ELSE CHOOSE id \in RepliedTo(q) : \A o \in RepliedTo(q) : NumOf(o) <= NumOf(id)

\* C15: for no query is a reply sent to the same tweet id more than once,
\* whatever the searches return from tick to tick.
C15_NoDuplicateReply ==
    op = "AutoReplier" => \A p \in Queries \X TweetIDs : replied[p] <= 1

\* C16: whenever Start is between ticks, LastTweetIDs[query] is the greatest
\* tweet id replied to for that query so far, or the empty string if there
\* is none.
C16_LastTweetIDIsGreatestReplied ==
    (op = "AutoReplier" /\ pc = "start" /\ gor[1].pc \in {"select", "returned"}) =>
        \A k \in 1..Len(args.SearchQueries) :
            LastTweetIDs[args.SearchQueries[k]] = GreatestReplied(args.SearchQueries[k])

\* C17: a tweet whose id is numerically greater than the last-seen id of its
\* query is never skipped as already processed: the test tweet.ID <= lastID
\* never holds for an id that is the greater number.
C17_NewTweetNeverSkipped ==
    \A g \in Goroutines :
        (op = "AutoReplier" /\ gor[g].pc = "reply" /\ gor[g].lastID # NoID) =>
            LET id == gor[g].tweets[gor[g].i + 1].ID IN
            NumOf(id) > NumOf(gor[g].lastID) => ~Skip(gor[g].lastID, id)

\* C18: however NewAutoReplier, Start and Stop are used on one AutoReplier,
\* no two goroutines are ever about to use the map LastTweetIDs at the same
\* time, one of them writing.
C18_MapSingleGoroutine == ~Race

\* a step of a handshake wrapper failed: the answer to its last creation,
\* publish, register or upload request
StepFailed ==
    /\ Len(resps) > 0
    /\ \/ lastResp.neterr
       \/ op \in IGOps /\ (lastResp.code # StatusOK \/ ~DecodeMedia(lastResp.body).ok)
       \/ op = "PostWithImage" /\ Len(resps) = 1 /\ lastResp.code # StatusOK
       \/ op = "PostWithImage" /\ Len(resps) = 2 /\ ~PutAccepted(lastResp.code)

\* C19: AutomatedTweeter sends one CreateTweet per tick and moves on to the
\* next item whatever the answer: the k-th request carries the k-th item of
\* Content (counted cyclically) and CurrentIndex is one past the item posted
\* last; in the handshake wrappers a failed creation, publish, register or
\* upload request is the last request of the call, a poll that ended the
\* wait is the last poll, a failed wait ends the call with the wait's error,
\* and a call that has returned sends nothing more.
C19_NoRetries ==
    /\ (op = "AutomatedTweeter" /\ Len(reqs) > 0) =>
            LET n == Len(args.Content) IN
            /\ Len(resps) = Len(reqs)
            /\ \A k \in 1..Len(reqs) :
                    reqs[k] = Req("POST", "tweets", [text |-> args.Content[((k - 1) % n) + 1]])
            /\ CurrentIndex = ((Len(reqs) - 1) % n) + 1
    /\ (op \in IGOps \cup {"PostWithImage"} /\ StepFailed) =>
            /\ pc = "done"
            /\ ret.err # Nil /\ ret.val = NoVal
    /\ (op \in IGOps /\ InWait /\ statusReqs > 0 /\ PollOutcome(statusResp).return) =>
            /\ pc = "waited"
            /\ ~ENABLED WaitPoll
    /\ (op \in IGOps /\ waitErr # Nil) =>
            /\ pc \in {"waited", "done"}
            /\ pc = "done" => ret.err = waitErr
    /\ (op \in CallOps /\ pc = "done") => ~ENABLED Next

\* the first post failed and the second tick posted the second item
C19_Witness ==
    /\ op = "AutomatedTweeter" /\ args.Content = <<"a", "b">>
    /\ Len(reqs) >= 2 /\ TweetOutcome(resps[1]).err # Nil
    /\ reqs[2].params.text = "b"

\* C20: Stop can be called in every state - before Start, while Start runs,
\* after an earlier Stop - without ending the program in a panic.
C20_StopNeverPanics ==
    op \in LoopOps => crash # "close of closed channel"

----------------------------------------------------------------------------
(* Properties of AutomatedTweeter's index *)

\* C22: with a non-empty Content of length n the k-th tick posts item
\* (k-1) mod n of Content, whatever the answers to the earlier posts were.
C22_CyclicOrder ==
    (op = "AutomatedTweeter" /\ Len(args.Content) > 0) =>
        \A k \in 1..Len(reqs) :
            reqs[k].params.text = args.Content[((k - 1) % Len(args.Content)) + 1]

\* the third tick wrapped around a Content of two items after a failed post
C22_Witness ==
    /\ op = "AutomatedTweeter" /\ args.Content = <<"a", "b">>
    /\ Len(reqs) = 3 /\ reqs[3].params.text = "a"
    /\ \E k \in 1..2 : TweetOutcome(resps[k]).err # Nil

\* C23: CurrentIndex stays within 0..len(Content) and no tick reads Content
\* out of bounds, for every Content, the empty one included.
C23_IndexInBounds ==
    op = "AutomatedTweeter" =>
        /\ CurrentIndex >= 0 /\ CurrentIndex <= Len(args.Content)
        /\ crash # "index out of range"

----------------------------------------------------------------------------
(* Properties of the status answers of waitForMediaProcessing *)

\* C24: a status answer that is not JSON, or whose status_code is missing or
\* not a string, ends the wait at once with an error ('invalid status
\* response' for the latter) and no further poll; the wait goes on to
\* another attempt only after a string status_code other than FINISHED and
\* ERROR.
C24_InvalidStatusEndsWait ==
    LET body == statusResp.body
        NotJSON == ~statusResp.neterr /\ body = "not json"
        NoStatus == ~statusResp.neterr /\ body \in {"{error:x}", "{status_code:7}"}
        Processing == ~statusResp.neterr /\ body = "{status_code:IN_PROGRESS}"
    IN  (op \in IGOps /\ InWait /\ statusReqs > 0) =>
            /\ NotJSON =>
                    pc = "waited" /\ waitErr = ErrJSON /\ ~ENABLED WaitPoll
            /\ NoStatus =>
                    /\ pc = "waited" /\ waitErr = ErrorsNew("invalid status response")
                    /\ ~ENABLED WaitPoll
            /\ pc = "wait" => Processing
            /\ Processing =>
                    \/ pc = "wait" /\ (i < maxAttempts => ENABLED WaitPoll)
                    \/ TimedOut /\ i = maxAttempts

\* the second poll of a wait was answered with a status_code that is a number
C24_Witness ==
    /\ op = "PostReel" /\ pc = "waited" /\ statusReqs = 2
    /\ statusResp.body = "{status_code:7}"
    /\ waitErr = ErrorsNew("invalid status response")

----------------------------------------------------------------------------
(* Properties of the author of a LinkedIn post *)


----------------------------------------------------------------------------
(* Properties of the Reddit client's token *)

\* C25: makeRequest sends a token request exactly when AccessToken is empty
\* or the time is not before TokenExpiry, so calls made while the stored
\* token is unexpired send none; and a makeRequest whose authentication
\* failed sends no API request.
C25_TokenRequestIffInvalid ==
    [][ (op = "makeRequest") =>
        LET IsTokenReq(r) == r.url = "access_token"
            Sent == Len(reqs') = Len(reqs) + 1
            TokenSent == Sent /\ IsTokenReq(reqs'[Len(reqs')])
            ApiSent == Sent /\ ~IsTokenReq(reqs'[Len(reqs')])
            Authenticates == pc = "start" /\ pc' # "start"
            Failed(r) == r.neterr \/ r.code # StatusOK \/ r.body = "not json"
        IN  /\ TokenSent <=>
                    (Authenticates /\ (reddit.AccessToken = "" \/ now >= reddit.TokenExpiry))
            /\ (TokenSent /\ Failed(resps'[Len(resps')])) =>
                    pc' = "done" /\ ret'.err # Nil /\ reddit' = reddit
            /\ ApiSent =>
                    \A k \in 1..Len(reqs) : IsTokenReq(reqs[k]) => ~Failed(resps[k])
            /\ Len(reqs') <= 2
            /\ \A k \in 1..Len(reqs') : IsTokenReq(reqs'[k]) => k = 1
      ]_vars

\* a call made while the token fetched by an earlier call is unexpired: it
\* sent the API request with that token and no token request
C25_Witness ==
    /\ op = "makeRequest" /\ pc = "done" /\ ret.err = Nil
    /\ Len(reqs) = 1 /\ reqs[1].url = "oauth.reddit.com"
    /\ reqs[1].params.Authorization = "t1"

----------------------------------------------------------------------------
(* Properties of the Instagram token methods *)

\* C28: a token method that returns an error - no token to exchange, a
\* transport error, a status other than 200, a body that does not decode -
\* leaves c.AccessToken and c.UserID as they were; they change only when
\* the method succeeds, and then to the values of the answer.
C28_TokenFailureLeavesClient ==
    [][ (op \in IGTokenOps) =>
        /\ ret'.err # Nil => client' = client
        /\ client' # client =>
                /\ ret'.err = Nil
                /\ ~lastResp'.neterr /\ lastResp'.code = StatusOK
                /\ lastResp'.body \in {"{}", "{access_token:new,user_id:42}"}
        /\ (pc' = "done" /\ ret'.err = Nil) =>
                /\ client'.AccessToken = ret'.val.AccessToken
                /\ client'.UserID = IF op = "GetAccessToken" THEN ret'.val.UserID
                                    ELSE client.UserID
      ]_vars

\* RefreshAccessToken got a 200 answer whose access_token decoded and whose
\* user_id did not: it returned the error and the old token is still there
C28_Witness ==
    /\ op = "RefreshAccessToken" /\ pc = "done" /\ ret.err = ErrJSON
    /\ lastResp = HTTP(StatusOK, "{access_token:new,user_id:x}")
    /\ client = [AccessToken |-> "tok", UserID |-> "17"]

----------------------------------------------------------------------------
(* Properties of the messaging methods and of the missing fields *)

\* C27: a message id "A:B" is split at the colon: every request of Slack's
\* ReplyToComment and GetPostStats, of Telegram's and of WhatsApp's
\* ReplyToComment carries A as channel / chat / recipient and B as thread
\* timestamp / message replied to.
C27_CompositeIDSplit ==
    (op \in MsgOps /\ Len(args.messageID) = 3 /\ args.messageID[2] = ":") =>
        LET A == <<args.messageID[1]>>
            B == <<args.messageID[3]>>
        IN  \A k \in 1..Len(reqs) :
                LET p == reqs[k].params IN
                CASE reqs[k].url = "chat.postMessage" -> p.channel = A /\ p.thread_ts = B
                  [] reqs[k].url = "sendMessage" -> p.chat_id = A /\ p.reply_to_message_id = B
                  [] reqs[k].url = "messages" -> p.to = A /\ p.message_id = B
                  [] reqs[k].url = "conversations.history" -> p.channel = A /\ p.latest = B
                  [] OTHER -> p.channel = A /\ p.ts = B

\* C21: no wrapper ends in a panic: a success answer whose body lacks an
\* expected field makes the method return an error.
C21_MissingFieldReturnsError ==
    op \in CallOps => pc # "panic"

====
